---- MODULE Spec2Model ----
(***************************************************************************)
(* list-positions: the Order (tree of bunches, compare, receive,           *)
(* createPositions), the LexUtils string encoding and its number           *)
(* sequence.                                                               *)
(*                                                                         *)
(* Strings are sequences of character codes, so that JavaScript's string   *)
(* comparison (by code unit) is the lexicographic order of the sequences.  *)
(* Numbers are integers; the one non-integer number the code produces,     *)
(* NaN, is the reserved integer NaN, which the Js* operators treat as      *)
(* JavaScript treats NaN.                                                  *)
(***************************************************************************)
EXTENDS Integers, Sequences, FiniteSets, TLC

VARIABLES tree, sent, minted, last, enc, ps, list

vars == <<tree, sent, minted, last, enc, ps, list>>

(***************************************************************************)
(* Bounds of the model.                                                    *)
(***************************************************************************)
\* createPositions is called with count in 1..MaxCount
MaxCount == 2
\* a bunch's createdCounter is capped at MaxCounter by the guards
MaxCounter == 3
\* the claims quantify over positions with innerIndex in 0..MaxInner
MaxInner == 2
\* receive (Spec) is called with batches of at most MaxBatch metas
MaxBatch == 2
\* the number encoding is applied to 0..MaxEncode
MaxEncode == 22

(***************************************************************************)
(* Characters and strings.                                                 *)
(***************************************************************************)
Comma == 44
Minus == 45
Dot == 46
Digit0 == 48
LowerA == 97
Tilde == 126

RECURSIVE StrLess(_, _)
\* s < t for JavaScript strings
StrLess(s, t) ==
  IF t = <<>> THEN FALSE
  ELSE IF s = <<>> THEN TRUE
  ELSE IF Head(s) # Head(t) THEN Head(s) < Head(t)
  ELSE StrLess(Tail(s), Tail(t))

\* s > t for JavaScript strings
StrGreater(s, t) == StrLess(t, s)

\* s is a prefix of t (String.prototype.startsWith)
IsPrefix(s, t) == Len(s) <= Len(t) /\ SubSeq(t, 1, Len(s)) = s

\* index (1-based) of the last c in s, 0 when there is none
LastIndexOf(s, c) ==
  IF \E i \in 1..Len(s) : s[i] = c
  THEN CHOOSE i \in 1..Len(s) : s[i] = c /\ \A j \in (i+1)..Len(s) : s[j] # c
  ELSE 0

\* index (1-based) of the first c in s, 0 when there is none
IndexOf(s, c) ==
  IF \E i \in 1..Len(s) : s[i] = c
  THEN CHOOSE i \in 1..Len(s) : s[i] = c /\ \A j \in 1..(i-1) : s[j] # c
  ELSE 0

RECURSIVE Split(_, _)
\* s.split(c): the parts of s between the occurrences of c
Split(s, c) ==
  LET i == IndexOf(s, c) IN
  IF i = 0 THEN <<s>>
  ELSE <<SubSeq(s, 1, i - 1)>> \o Split(SubSeq(s, i + 1, Len(s)), c)

RECURSIVE Join(_, _)
\* parts.join(c)
Join(parts, c) ==
  IF Len(parts) = 0 THEN <<>>
  ELSE IF Len(parts) = 1 THEN parts[1]
  ELSE parts[1] \o <<c>> \o Join(Tail(parts), c)

(***************************************************************************)
(* JavaScript numbers.                                                     *)
(***************************************************************************)
NaN == -1073741824

IsNaN(x) == x = NaN

JsAdd(x, y) == IF IsNaN(x) \/ IsNaN(y) THEN NaN ELSE x + y
JsSub(x, y) == IF IsNaN(x) \/ IsNaN(y) THEN NaN ELSE x - y
JsNeg(x) == IF IsNaN(x) THEN NaN ELSE 0 - x
\* x >> 1 (ToInt32(NaN) is 0; >> rounds towards minus infinity)
JsShr1(x) == IF IsNaN(x) THEN 0 ELSE x \div 2
\* x === y on numbers
JsStrictEq(x, y) == ~IsNaN(x) /\ ~IsNaN(y) /\ x = y
JsLt(x, y) == ~IsNaN(x) /\ ~IsNaN(y) /\ x < y
JsGt(x, y) == ~IsNaN(x) /\ ~IsNaN(y) /\ x > y
JsGe(x, y) == ~IsNaN(x) /\ ~IsNaN(y) /\ x >= y

\* the sign of a comparator's result: -1, 0, 1, or NaN
Sign(x) == IF IsNaN(x) THEN NaN ELSE IF x < 0 THEN -1 ELSE IF x > 0 THEN 1 ELSE 0

RECURSIVE XorNat(_, _)
\* bitwise exclusive or of two naturals
XorNat(a, b) ==
  IF a = 0 THEN b
  ELSE IF b = 0 THEN a
  ELSE (((a % 2) + (b % 2)) % 2) + 2 * XorNat(a \div 2, b \div 2)

\* a ^ b on 32-bit two's complement integers (|a|, |b| < 2^31):
\* for a < 0 the bits of a are the complement of the bits of -a-1
JsXor(a, b) ==
  IF a >= 0 /\ b >= 0 THEN XorNat(a, b)
  ELSE IF a < 0 /\ b < 0 THEN XorNat(0 - a - 1, 0 - b - 1)
  ELSE IF a < 0 THEN 0 - XorNat(0 - a - 1, b) - 1
  ELSE 0 - XorNat(a, 0 - b - 1) - 1

RECURSIVE Pow(_, _)
\* Math.pow(b, e) for naturals
Pow(b, e) == IF e = 0 THEN 1 ELSE b * Pow(b, e - 1)

(***************************************************************************)
(* LexUtils: the number sequence and its base-36 text.                     *)
(***************************************************************************)
BASE == 36

\* one base-36 digit as toString(36) writes it: 0-9, a-z
DigitChar(d) == IF d < 10 THEN Digit0 + d ELSE LowerA + (d - 10)

RECURSIVE NatToString(_)
NatToString(n) ==
  IF n < BASE THEN <<DigitChar(n)>>
  ELSE NatToString(n \div BASE) \o <<DigitChar(n % BASE)>>

\* Number.prototype.toString(BASE) of an integer
ToStringBase(n) == IF n < 0 THEN <<Minus>> \o NatToString(0 - n) ELSE NatToString(n)

\* the value of a base-36 digit character, -1 for any other character
DigitValue(c) ==
  IF c >= Digit0 /\ c <= Digit0 + 9 THEN c - Digit0
  ELSE IF c >= LowerA /\ c < LowerA + 26 THEN c - LowerA + 10
  ELSE IF c >= 65 /\ c < 65 + 26 THEN c - 65 + 10
  ELSE -1

RECURSIVE ParseDigits(_, _, _)
\* the value of the longest prefix of s made of digits, NaN when it is empty
ParseDigits(s, acc, any) ==
  IF s = <<>> \/ DigitValue(Head(s)) < 0 THEN (IF any THEN acc ELSE NaN)
  ELSE ParseDigits(Tail(s), (acc * BASE) + DigitValue(Head(s)), TRUE)

\* Number.parseInt(s, BASE)
ParseIntBase(s) ==
  IF s # <<>> /\ Head(s) = Minus THEN JsNeg(ParseDigits(Tail(s), 0, FALSE))
  ELSE ParseDigits(s, 0, FALSE)

RECURSIVE SequenceLoop(_, _)
\* the loop of sequence(): subtract (BASE/2)^d while it fits
SequenceLoop(remaining, d) ==
  LET valueCount == Pow(BASE \div 2, d) IN
  IF remaining < valueCount THEN [remaining |-> remaining, d |-> d]
  ELSE SequenceLoop(remaining - valueCount, d + 1)

\* sequence(n) as written: (remaining + BASE) ^ (d - BASE * (BASE / 2)) ^ (d - 1),
\* where ^ is JavaScript's exclusive or
sequence(n) ==
  LET l == SequenceLoop(n, 1) IN
  JsXor(JsXor(l.remaining + BASE, l.d - BASE * (BASE \div 2)), l.d - 1)

RECURSIVE SumPow(_, _)
\* the sum of (BASE/2)^d2 for d2 = from .. d-1
SumPow(from, d) == IF from >= d THEN 0 ELSE Pow(BASE \div 2, from) + SumPow(from + 1, d)

\* sequenceInv(seq): Math.log of a negative number or of NaN is NaN, and then
\* d and the answer are NaN
sequenceInv(seq) ==
  IF IsNaN(seq) \/ seq < 0 THEN NaN
  ELSE LET d == IF seq = 0 THEN 1 ELSE Len(NatToString(seq)) IN
       seq - (Pow(BASE, d) - BASE * Pow(BASE \div 2, d - 1)) + SumPow(1, d)

encodeOffset(offset) == ToStringBase(sequence(offset))

decodeOffset(encoded) == sequenceInv(ParseIntBase(encoded))

encodeValueIndex(valueIndex) == encodeOffset(2 * valueIndex + 1)

decodeValueIndex(encoded) == JsShr1(decodeOffset(encoded))

(***************************************************************************)
(* LexUtils: positions and node prefixes as strings.  A meta is a record   *)
(* [bunchID, parentID, offset] (LexUtils names the first field id).        *)
(***************************************************************************)
\* BunchIDs.ROOT, the string "ROOT"
ROOT == <<82, 79, 79, 84>>

MIN_LEX_POSITION == <<>>
MAX_LEX_POSITION == <<Tilde>>

\* s.slice(0, lastComma) and s.slice(lastComma + 1), lastComma 0-based or -1:
\* slice(0, -1) drops the last character
SliceTo(s, lastComma1) ==
  IF lastComma1 = 0 THEN SubSeq(s, 1, Len(s) - 1) ELSE SubSeq(s, 1, lastComma1 - 1)

SliceFrom(s, idx1) == SubSeq(s, idx1 + 1, Len(s))

\* combinePos never sees a root valueIndex other than 0 or 1 (getNodeFor)
combinePos(nodePrefix, valueIndex) ==
  IF nodePrefix = <<>>
  THEN (IF valueIndex = 0 THEN MIN_LEX_POSITION ELSE MAX_LEX_POSITION)
  ELSE nodePrefix \o <<Comma>> \o encodeValueIndex(valueIndex)

splitPos(lexPos) ==
  IF lexPos = MIN_LEX_POSITION THEN [nodePrefix |-> <<>>, valueIndex |-> 0]
  ELSE IF lexPos = MAX_LEX_POSITION THEN [nodePrefix |-> <<>>, valueIndex |-> 0]
  ELSE LET lastComma == LastIndexOf(lexPos, Comma) IN
       [nodePrefix |-> SliceTo(lexPos, lastComma),
        valueIndex |-> decodeValueIndex(SliceFrom(lexPos, lastComma))]

\* metas is a tree path: metas[1] a child of the root, each later one a child
\* of the one before
combineNodePrefix(metas) ==
  IF Len(metas) = 0 THEN <<>>
  ELSE Join([i \in 1..Len(metas) |->
               IF i = 1 THEN metas[1].bunchID
               ELSE encodeOffset(metas[i].offset) \o <<Dot>> \o metas[i].bunchID],
            Comma)

RECURSIVE splitNodePrefixLoop(_, _, _)
splitNodePrefixLoop(parts, i, parentID) ==
  IF i > Len(parts) THEN <<>>
  ELSE LET dot == IndexOf(parts[i], Dot)
           id == SliceFrom(parts[i], dot)
       IN <<[bunchID |-> id, parentID |-> parentID,
             offset |-> decodeOffset(SubSeq(parts[i], 1, dot - 1))]>>
          \o splitNodePrefixLoop(parts, i + 1, id)

\* every part after the first holds a "." when the prefix was made by
\* combineNodePrefix
splitNodePrefix(nodePrefix) ==
  IF nodePrefix = <<>> THEN <<>>
  ELSE LET parts == Split(nodePrefix, Comma) IN
       <<[bunchID |-> parts[1], parentID |-> ROOT, offset |-> 0]>>
       \o splitNodePrefixLoop(parts, 2, parts[1])

\* LexUtils.nodeIDFor, which Order calls as bunchIDFor
bunchIDFor(nodePrefix) ==
  IF nodePrefix = <<>> THEN ROOT
  ELSE LET lastComma == LastIndexOf(nodePrefix, Comma) IN
       IF lastComma = 0 THEN nodePrefix
       ELSE LET lastPart == SliceFrom(nodePrefix, lastComma) IN
            SliceFrom(lastPart, IndexOf(lastPart, Dot))

(***************************************************************************)
(* Order: the tree.  An Order is [nodes, keys]: nodes maps each installed  *)
(* bunch id to its NodeInternal, keys lists the ids in the insertion order *)
(* of the Map.  A NodeInternal is a record                                 *)
(*   [id, parent, offset, depth, children, createdCounter, createdChildren]*)
(* with parent an id (Null for the root), children a sequence of ids,      *)
(* createdCounter a number or Undefined, createdChildren a function from   *)
(* offsets to ids.                                                         *)
(***************************************************************************)
Null == << -1 >>
Undefined == -1

EmptyMap == [o \in {} |-> Null]

MapSet(f, k, v) == [x \in (DOMAIN f) \cup {k} |-> IF x = k THEN v ELSE f[x]]

NodeInternal(id, parent, offset, parentDepth) ==
  [id |-> id, parent |-> parent, offset |-> offset,
   depth |-> IF parent = Null THEN 0 ELSE parentDepth + 1,
   children |-> <<>>, createdCounter |-> Undefined, createdChildren |-> EmptyMap]

\* the Order after its constructor
NewOrder ==
  [nodes |-> [id \in {ROOT} |-> NodeInternal(ROOT, Null, 0, 0)], keys |-> <<ROOT>>]

nextInnerIndex(node) == JsShr1(JsAdd(node.offset, 1))

meta(node) == [bunchID |-> node.id, parentID |-> node.parent, offset |-> node.offset]

equalsBunchMeta(a, b) ==
  a.bunchID = b.bunchID /\ a.parentID = b.parentID /\ JsStrictEq(a.offset, b.offset)

MIN_POSITION == [bunchID |-> ROOT, innerIndex |-> 0]
MAX_POSITION == [bunchID |-> ROOT, innerIndex |-> 1]

\* getNodeFor returns (does not throw) for pos
getNodeForOK(o, pos) ==
  /\ pos.innerIndex \in Nat
  /\ pos.bunchID \in DOMAIN o.nodes
  /\ (pos.bunchID = ROOT => pos.innerIndex \in {0, 1})

\* compareSiblingNodes throws unless a and b have the same parent; its callers
\* pass siblings only, and the string makes TLC fail if one ever does not
compareSiblingNodes(a, b) ==
  IF a.parent # b.parent THEN "throws"
  ELSE IF ~JsStrictEq(a.offset, b.offset) THEN JsSub(a.offset, b.offset)
  ELSE IF a.id # b.id
       THEN (IF StrGreater(a.id \o <<Comma>>, b.id \o <<Comma>>) THEN 1 ELSE -1)
  ELSE 0

RECURSIVE compareLoopA(_, _, _, _, _)
\* the first loop of compare: aAnc climbs while i > bNode.depth
compareLoopA(o, aAnc, i, bNode, b) ==
  IF i > o.nodes[bNode].depth
  THEN IF o.nodes[aAnc].parent = bNode
       THEN [returned |-> TRUE,
             value |-> IF nextInnerIndex(o.nodes[aAnc]) = b.innerIndex + 1 THEN 1
                       ELSE nextInnerIndex(o.nodes[aAnc]) - (b.innerIndex + 1)]
       ELSE compareLoopA(o, o.nodes[aAnc].parent, i - 1, bNode, b)
  ELSE [returned |-> FALSE, anc |-> aAnc]

RECURSIVE compareLoopB(_, _, _, _, _, _)
\* the second loop of compare: bAnc climbs while i > aNode.depth
compareLoopB(o, bAnc, i, aNode, a, b) ==
  IF i > o.nodes[aNode].depth
  THEN IF o.nodes[bAnc].parent = aNode
       THEN [returned |-> TRUE,
             value |-> IF nextInnerIndex(o.nodes[bAnc]) = a.innerIndex + 1 THEN -1
                       ELSE 0 - (nextInnerIndex(o.nodes[bAnc]) - (b.innerIndex + 1))]
       ELSE compareLoopB(o, o.nodes[bAnc].parent, i - 1, aNode, a, b)
  ELSE [returned |-> FALSE, anc |-> bAnc]

RECURSIVE compareLockstep(_, _, _)
\* walk up in lockstep until aAnc and bAnc are siblings
compareLockstep(o, aAnc, bAnc) ==
  IF o.nodes[aAnc].parent # o.nodes[bAnc].parent
  THEN compareLockstep(o, o.nodes[aAnc].parent, o.nodes[bAnc].parent)
  ELSE compareSiblingNodes(o.nodes[aAnc], o.nodes[bAnc])

\* Order.compare, for a and b that getNodeFor accepts
compare(o, a, b) ==
  LET aNode == a.bunchID
      bNode == b.bunchID
  IN IF aNode = bNode THEN a.innerIndex - b.innerIndex
     ELSE LET la == compareLoopA(o, aNode, o.nodes[aNode].depth, bNode, b) IN
          IF la.returned THEN la.value
          ELSE LET lb == compareLoopB(o, bNode, o.nodes[bNode].depth, aNode, a, b) IN
               IF lb.returned THEN lb.value
               ELSE compareLockstep(o, la.anc, lb.anc)

RECURSIVE isDescendantLoop(_, _, _, _)
isDescendantLoop(o, aAnc, curInnerIndex, bNode) ==
  IF o.nodes[aAnc].depth > o.nodes[bNode].depth
  THEN isDescendantLoop(o, o.nodes[aAnc].parent, JsShr1(o.nodes[aAnc].offset), bNode)
  ELSE [aAnc |-> aAnc, curInnerIndex |-> curInnerIndex]

isDescendant(o, a, b) ==
  LET l == isDescendantLoop(o, a.bunchID, a.innerIndex, b.bunchID) IN
  l.aAnc = b.bunchID /\ l.curInnerIndex >= b.innerIndex

(***************************************************************************)
(* Order: receive and newNode.                                             *)
(***************************************************************************)
\* BunchIDs.validate accepts id: no ",", no ".", first character below "~"
validateOK(id) ==
  /\ \A k \in 1..Len(id) : id[k] # Comma /\ id[k] # Dot
  /\ (Len(id) > 0 => id[1] < Tilde)

RECURSIVE newNodeIndex(_, _, _, _)
\* the index (0-based) of the first sibling > node, or children.length
newNodeIndex(o, children, node, i) ==
  IF i < Len(children)
  THEN IF JsGt(compareSiblingNodes(o.nodes[children[i + 1]], node), 0) THEN i
       ELSE newNodeIndex(o, children, node, i + 1)
  ELSE i

\* children.splice(i, 0, id)
Splice(children, i, id) ==
  SubSeq(children, 1, i) \o <<id>> \o SubSeq(children, i + 1, Len(children))

\* newNode with the sorted insertion lost: the node goes to the end of its
\* parent's children
newNodeAppend(o, nodeMeta) ==
  LET parentNode == o.nodes[nodeMeta.parentID]
      node == NodeInternal(nodeMeta.bunchID, nodeMeta.parentID, nodeMeta.offset,
                           parentNode.depth)
      newParent == [parentNode EXCEPT !.children = Append(parentNode.children, node.id)]
  IN [nodes |-> MapSet(MapSet(o.nodes, node.id, node), parentNode.id, newParent),
      keys |-> IF node.id \in DOMAIN o.nodes THEN o.keys ELSE Append(o.keys, node.id)]

\* Order.newNode, for a nodeMeta whose parent is installed: the Order with the
\* node added to the Map and to its parent's children
newNode(o, nodeMeta) ==
  LET parentNode == o.nodes[nodeMeta.parentID]
      node == NodeInternal(nodeMeta.bunchID, nodeMeta.parentID, nodeMeta.offset,
                           parentNode.depth)
      i == newNodeIndex(o, parentNode.children, node, 0)
      newParent == [parentNode EXCEPT !.children = Splice(parentNode.children, i, node.id)]
  IN [nodes |-> MapSet(MapSet(o.nodes, node.id, node), parentNode.id, newParent),
      keys |-> IF node.id \in DOMAIN o.nodes THEN o.keys ELSE Append(o.keys, node.id)]

\* Map.get on a Map kept as a sequence of metas keyed by bunchID
HasMeta(map, id) == \E k \in 1..Len(map) : map[k].bunchID = id
GetMeta(map, id) == map[CHOOSE k \in 1..Len(map) : map[k].bunchID = id]

RECURSIVE receiveStep1NoCompare(_, _, _)
\* step 1 that skips a meta of an installed bunch without comparing it
receiveStep1NoCompare(o, nodeMetas, newNodeMetas) ==
  IF nodeMetas = <<>> THEN [error |-> "none", newNodeMetas |-> newNodeMetas]
  ELSE LET nodeMeta == Head(nodeMetas) IN
       IF nodeMeta.bunchID = ROOT THEN [error |-> "root"]
       ELSE IF nodeMeta.bunchID \in DOMAIN o.nodes
       THEN receiveStep1NoCompare(o, Tail(nodeMetas), newNodeMetas)
       ELSE IF HasMeta(newNodeMetas, nodeMeta.bunchID)
       THEN IF ~equalsBunchMeta(nodeMeta, GetMeta(newNodeMetas, nodeMeta.bunchID))
            THEN [error |-> "conflict"]
            ELSE receiveStep1NoCompare(o, Tail(nodeMetas), newNodeMetas)
       ELSE IF ~validateOK(nodeMeta.bunchID) THEN [error |-> "invalid"]
       ELSE receiveStep1NoCompare(o, Tail(nodeMetas), Append(newNodeMetas, nodeMeta))

RECURSIVE receiveStep1(_, _, _)
\* step 1 of receive: the new metas, in the order of their first occurrence,
\* or the error thrown
receiveStep1(o, nodeMetas, newNodeMetas) ==
  IF nodeMetas = <<>> THEN [error |-> "none", newNodeMetas |-> newNodeMetas]
  ELSE LET nodeMeta == Head(nodeMetas) IN
       IF nodeMeta.bunchID = ROOT THEN [error |-> "root"]
       ELSE IF nodeMeta.bunchID \in DOMAIN o.nodes
       THEN IF ~equalsBunchMeta(nodeMeta, meta(o.nodes[nodeMeta.bunchID]))
            THEN [error |-> "conflict"]
            ELSE receiveStep1(o, Tail(nodeMetas), newNodeMetas)
       ELSE IF HasMeta(newNodeMetas, nodeMeta.bunchID)
       THEN IF ~equalsBunchMeta(nodeMeta, GetMeta(newNodeMetas, nodeMeta.bunchID))
            THEN [error |-> "conflict"]
            ELSE receiveStep1(o, Tail(nodeMetas), newNodeMetas)
       ELSE IF ~validateOK(nodeMeta.bunchID) THEN [error |-> "invalid"]
       ELSE receiveStep1(o, Tail(nodeMetas), Append(newNodeMetas, nodeMeta))

\* pendingChildren is a Map from parent id to an array of metas, kept as a
\* sequence of [key, arr] in insertion order
PendingIndex(pending, id) ==
  IF \E k \in 1..Len(pending) : pending[k].key = id
  THEN CHOOSE k \in 1..Len(pending) : pending[k].key = id
  ELSE 0

PendingPush(pending, nodeMeta) ==
  LET k == PendingIndex(pending, nodeMeta.parentID) IN
  IF k = 0 THEN Append(pending, [key |-> nodeMeta.parentID, arr |-> <<nodeMeta>>])
  ELSE [pending EXCEPT ![k].arr = Append(@, nodeMeta)]

PendingDelete(pending, k) == SubSeq(pending, 1, k - 1) \o SubSeq(pending, k + 1, Len(pending))

RECURSIVE receiveSplit(_, _, _, _)
\* step 2, first loop: ready metas to toProcess, the others to pendingChildren
receiveSplit(o, newNodeMetas, toProcess, pending) ==
  IF newNodeMetas = <<>> THEN [toProcess |-> toProcess, pending |-> pending]
  ELSE LET nodeMeta == Head(newNodeMetas) IN
       IF nodeMeta.parentID \in DOMAIN o.nodes
       THEN receiveSplit(o, Tail(newNodeMetas), Append(toProcess, nodeMeta), pending)
       ELSE receiveSplit(o, Tail(newNodeMetas), toProcess, PendingPush(pending, nodeMeta))

\* step 2, second loop, moving no pending child to toProcess
receiveAppendNone(toProcess, pending, k) == [toProcess |-> toProcess, pending |-> pending]

RECURSIVE receiveAppend(_, _, _)
\* step 2, second loop: toProcess grows while it is walked (k is 1-based)
receiveAppend(toProcess, pending, k) ==
  IF k > Len(toProcess) THEN [toProcess |-> toProcess, pending |-> pending]
  ELSE LET j == PendingIndex(pending, toProcess[k].bunchID) IN
       IF j # 0
       THEN receiveAppend(toProcess \o pending[j].arr, PendingDelete(pending, j), k + 1)
       ELSE receiveAppend(toProcess, pending, k + 1)

\* the walk reporting a missing parent whatever it finds
receiveFailureNoCycle(newNodeMetas, someFailedMeta, seenNodeIDs) == "unknown parent"

\* the walk reporting a cycle whatever it finds
receiveFailureNoParent(newNodeMetas, someFailedMeta, seenNodeIDs) == "cycle"

RECURSIVE receiveFailure(_, _, _)
\* the walk that picks the error when pendingChildren is not empty
receiveFailure(newNodeMetas, someFailedMeta, seenNodeIDs) ==
  IF HasMeta(newNodeMetas, someFailedMeta.parentID)
  THEN LET next == GetMeta(newNodeMetas, someFailedMeta.parentID) IN
       IF next.bunchID \in seenNodeIDs THEN "cycle"
       ELSE receiveFailure(newNodeMetas, next, seenNodeIDs \cup {next.bunchID})
  ELSE "unknown parent"

RECURSIVE receiveInstall(_, _)
\* the last loop of receive: newNode for each meta of toProcess, in order
receiveInstall(o, toProcess) ==
  IF toProcess = <<>> THEN o
  ELSE receiveInstall(newNode(o, Head(toProcess)), Tail(toProcess))

\* receive with the ready metas installed before the check of pendingChildren
receiveEager(o, nodeMetas) ==
  LET s1 == receiveStep1(o, nodeMetas, <<>>) IN
  IF s1.error # "none" THEN [error |-> s1.error, order |-> o]
  ELSE LET split == receiveSplit(o, s1.newNodeMetas, <<>>, <<>>)
           s2 == receiveAppend(split.toProcess, split.pending, 1)
           installed == receiveInstall(o, s2.toProcess)
       IN IF Len(s2.pending) # 0
          THEN [error |-> receiveFailure(s1.newNodeMetas, s2.pending[1].arr[1], {}),
                order |-> installed]
          ELSE [error |-> "none", order |-> installed]

\* Order.receive(nodeMetas): [error, order], order being the Order when receive
\* returns or throws
receive(o, nodeMetas) ==
  LET s1 == receiveStep1(o, nodeMetas, <<>>) IN
  IF s1.error # "none" THEN [error |-> s1.error, order |-> o]
  ELSE LET split == receiveSplit(o, s1.newNodeMetas, <<>>, <<>>)
           s2 == receiveAppend(split.toProcess, split.pending, 1)
       IN IF Len(s2.pending) # 0
          THEN [error |-> receiveFailure(s1.newNodeMetas, s2.pending[1].arr[1], {}),
                order |-> o]
          ELSE [error |-> "none", order |-> receiveInstall(o, s2.toProcess)]

\* nodeMetas() / save(): the metas of all nodes but the root, in Map order
save(o) == [k \in 1..(Len(o.keys) - 1) |-> meta(o.nodes[o.keys[k + 1]])]

(***************************************************************************)
(* Order: createPositions.                                                 *)
(***************************************************************************)
NoPosition == [bunchID |-> Null, innerIndex |-> 0]

\* createdNode = null
NoMeta == [bunchID |-> Null, parentID |-> Null, offset |-> 0]

\* createPositionsBody whose reuse of a minted bunch (the conflict branch) does
\* not advance the bunch's createdCounter
createPositionsBodyStale(o, prevPos, nextPos, count, newNodeID) ==
  LET notDesc == ~isDescendant(o, nextPos, prevPos)
      prevNode == o.nodes[prevPos.bunchID]
      newNodeParent == IF notDesc THEN prevNode ELSE o.nodes[nextPos.bunchID]
      newNodeOffset == IF notDesc THEN 2 * prevPos.innerIndex + 1
                       ELSE 2 * nextPos.innerIndex
  IN IF notDesc /\ prevNode.createdCounter # Undefined
     THEN \* We created prevNode. Use its next Position.
          [error |-> "none",
           order |-> [o EXCEPT !.nodes[prevNode.id].createdCounter = @ + count],
           startPos |-> [bunchID |-> prevNode.id, innerIndex |-> prevNode.createdCounter],
           createdNode |-> NoMeta]
     ELSE IF newNodeOffset \in DOMAIN newNodeParent.createdChildren
     THEN LET conflict == o.nodes[newNodeParent.createdChildren[newNodeOffset]] IN
          [error |-> "none",
           order |-> o,
           startPos |-> [bunchID |-> conflict.id, innerIndex |-> conflict.createdCounter],
           createdNode |-> NoMeta]
     ELSE LET createdNodeMeta == [bunchID |-> newNodeID, parentID |-> newNodeParent.id,
                                  offset |-> newNodeOffset]
          IN IF createdNodeMeta.bunchID \in DOMAIN o.nodes
             THEN [error |-> "id exists", order |-> o, startPos |-> NoPosition,
                   createdNode |-> NoMeta]
             ELSE LET o1 == newNode(o, createdNodeMeta)
                      o2 == [o1 EXCEPT
                               !.nodes[createdNodeMeta.bunchID].createdCounter = count,
                               !.nodes[newNodeParent.id].createdChildren =
                                  MapSet(@, createdNodeMeta.offset, createdNodeMeta.bunchID)]
                  IN [error |-> "none", order |-> o2,
                      startPos |-> [bunchID |-> createdNodeMeta.bunchID, innerIndex |-> 0],
                      createdNode |-> createdNodeMeta]

\* createPositionsBody without the look-up in createdChildren
createPositionsBodyNoConflict(o, prevPos, nextPos, count, newNodeID) ==
  LET notDesc == ~isDescendant(o, nextPos, prevPos)
      prevNode == o.nodes[prevPos.bunchID]
      newNodeParent == IF notDesc THEN prevNode ELSE o.nodes[nextPos.bunchID]
      newNodeOffset == IF notDesc THEN 2 * prevPos.innerIndex + 1
                       ELSE 2 * nextPos.innerIndex
  IN IF notDesc /\ prevNode.createdCounter # Undefined
     THEN \* We created prevNode. Use its next Position.
          [error |-> "none",
           order |-> [o EXCEPT !.nodes[prevNode.id].createdCounter = @ + count],
           startPos |-> [bunchID |-> prevNode.id, innerIndex |-> prevNode.createdCounter],
           createdNode |-> NoMeta]
     ELSE IF FALSE
     THEN LET conflict == o.nodes[newNodeParent.createdChildren[newNodeOffset]] IN
          [error |-> "none",
           order |-> [o EXCEPT !.nodes[conflict.id].createdCounter = @ + count],
           startPos |-> [bunchID |-> conflict.id, innerIndex |-> conflict.createdCounter],
           createdNode |-> NoMeta]
     ELSE LET createdNodeMeta == [bunchID |-> newNodeID, parentID |-> newNodeParent.id,
                                  offset |-> newNodeOffset]
          IN IF createdNodeMeta.bunchID \in DOMAIN o.nodes
             THEN [error |-> "id exists", order |-> o, startPos |-> NoPosition,
                   createdNode |-> NoMeta]
             ELSE LET o1 == newNode(o, createdNodeMeta)
                      o2 == [o1 EXCEPT
                               !.nodes[createdNodeMeta.bunchID].createdCounter = count,
                               !.nodes[newNodeParent.id].createdChildren =
                                  MapSet(@, createdNodeMeta.offset, createdNodeMeta.bunchID)]
                  IN [error |-> "none", order |-> o2,
                      startPos |-> [bunchID |-> createdNodeMeta.bunchID, innerIndex |-> 0],
                      createdNode |-> createdNodeMeta]

\* createPositionsBody without the branch for a prevPos in a bunch of this Order
createPositionsBodyNoOwn(o, prevPos, nextPos, count, newNodeID) ==
  LET notDesc == ~isDescendant(o, nextPos, prevPos)
      prevNode == o.nodes[prevPos.bunchID]
      newNodeParent == IF notDesc THEN prevNode ELSE o.nodes[nextPos.bunchID]
      newNodeOffset == IF notDesc THEN 2 * prevPos.innerIndex + 1
                       ELSE 2 * nextPos.innerIndex
  IN IF FALSE
     THEN \* We created prevNode. Use its next Position.
          [error |-> "none",
           order |-> [o EXCEPT !.nodes[prevNode.id].createdCounter = @ + count],
           startPos |-> [bunchID |-> prevNode.id, innerIndex |-> prevNode.createdCounter],
           createdNode |-> NoMeta]
     ELSE IF newNodeOffset \in DOMAIN newNodeParent.createdChildren
     THEN LET conflict == o.nodes[newNodeParent.createdChildren[newNodeOffset]] IN
          [error |-> "none",
           order |-> [o EXCEPT !.nodes[conflict.id].createdCounter = @ + count],
           startPos |-> [bunchID |-> conflict.id, innerIndex |-> conflict.createdCounter],
           createdNode |-> NoMeta]
     ELSE LET createdNodeMeta == [bunchID |-> newNodeID, parentID |-> newNodeParent.id,
                                  offset |-> newNodeOffset]
          IN IF createdNodeMeta.bunchID \in DOMAIN o.nodes
             THEN [error |-> "id exists", order |-> o, startPos |-> NoPosition,
                   createdNode |-> NoMeta]
             ELSE LET o1 == newNode(o, createdNodeMeta)
                      o2 == [o1 EXCEPT
                               !.nodes[createdNodeMeta.bunchID].createdCounter = count,
                               !.nodes[newNodeParent.id].createdChildren =
                                  MapSet(@, createdNodeMeta.offset, createdNodeMeta.bunchID)]
                  IN [error |-> "none", order |-> o2,
                      startPos |-> [bunchID |-> createdNodeMeta.bunchID, innerIndex |-> 0],
                      createdNode |-> createdNodeMeta]

\* createPositionsBody advancing createdCounter by one for any count
createPositionsBodyOneStep(o, prevPos, nextPos, count, newNodeID) ==
  LET notDesc == ~isDescendant(o, nextPos, prevPos)
      prevNode == o.nodes[prevPos.bunchID]
      newNodeParent == IF notDesc THEN prevNode ELSE o.nodes[nextPos.bunchID]
      newNodeOffset == IF notDesc THEN 2 * prevPos.innerIndex + 1
                       ELSE 2 * nextPos.innerIndex
  IN IF notDesc /\ prevNode.createdCounter # Undefined
     THEN \* We created prevNode. Use its next Position.
          [error |-> "none",
           order |-> [o EXCEPT !.nodes[prevNode.id].createdCounter = @ + 1],
           startPos |-> [bunchID |-> prevNode.id, innerIndex |-> prevNode.createdCounter],
           createdNode |-> NoMeta]
     ELSE IF newNodeOffset \in DOMAIN newNodeParent.createdChildren
     THEN LET conflict == o.nodes[newNodeParent.createdChildren[newNodeOffset]] IN
          [error |-> "none",
           order |-> [o EXCEPT !.nodes[conflict.id].createdCounter = @ + 1],
           startPos |-> [bunchID |-> conflict.id, innerIndex |-> conflict.createdCounter],
           createdNode |-> NoMeta]
     ELSE LET createdNodeMeta == [bunchID |-> newNodeID, parentID |-> newNodeParent.id,
                                  offset |-> newNodeOffset]
          IN IF createdNodeMeta.bunchID \in DOMAIN o.nodes
             THEN [error |-> "id exists", order |-> o, startPos |-> NoPosition,
                   createdNode |-> NoMeta]
             ELSE LET o1 == newNode(o, createdNodeMeta)
                      o2 == [o1 EXCEPT
                               !.nodes[createdNodeMeta.bunchID].createdCounter = count,
                               !.nodes[newNodeParent.id].createdChildren =
                                  MapSet(@, createdNodeMeta.offset, createdNodeMeta.bunchID)]
                  IN [error |-> "none", order |-> o2,
                      startPos |-> [bunchID |-> createdNodeMeta.bunchID, innerIndex |-> 0],
                      createdNode |-> createdNodeMeta]

\* the part of createPositions after the checks of prevPos, nextPos and count
createPositionsBody(o, prevPos, nextPos, count, newNodeID) ==
  LET notDesc == ~isDescendant(o, nextPos, prevPos)
      prevNode == o.nodes[prevPos.bunchID]
      newNodeParent == IF notDesc THEN prevNode ELSE o.nodes[nextPos.bunchID]
      newNodeOffset == IF notDesc THEN 2 * prevPos.innerIndex + 1
                       ELSE 2 * nextPos.innerIndex
  IN IF notDesc /\ prevNode.createdCounter # Undefined
     THEN \* We created prevNode. Use its next Position.
          [error |-> "none",
           order |-> [o EXCEPT !.nodes[prevNode.id].createdCounter = @ + count],
           startPos |-> [bunchID |-> prevNode.id, innerIndex |-> prevNode.createdCounter],
           createdNode |-> NoMeta]
     ELSE IF newNodeOffset \in DOMAIN newNodeParent.createdChildren
     THEN LET conflict == o.nodes[newNodeParent.createdChildren[newNodeOffset]] IN
          [error |-> "none",
           order |-> [o EXCEPT !.nodes[conflict.id].createdCounter = @ + count],
           startPos |-> [bunchID |-> conflict.id, innerIndex |-> conflict.createdCounter],
           createdNode |-> NoMeta]
     ELSE LET createdNodeMeta == [bunchID |-> newNodeID, parentID |-> newNodeParent.id,
                                  offset |-> newNodeOffset]
          IN IF createdNodeMeta.bunchID \in DOMAIN o.nodes
             THEN [error |-> "id exists", order |-> o, startPos |-> NoPosition,
                   createdNode |-> NoMeta]
             ELSE LET o1 == newNode(o, createdNodeMeta)
                      o2 == [o1 EXCEPT
                               !.nodes[createdNodeMeta.bunchID].createdCounter = count,
                               !.nodes[newNodeParent.id].createdChildren =
                                  MapSet(@, createdNodeMeta.offset, createdNodeMeta.bunchID)]
                  IN [error |-> "none", order |-> o2,
                      startPos |-> [bunchID |-> createdNodeMeta.bunchID, innerIndex |-> 0],
                      createdNode |-> createdNodeMeta]

\* createPositions without the check of count
createPositionsNoCountCheck(o, prevPos, nextPos, count, newNodeID) ==
  LET fail(e) == [error |-> e, order |-> o, startPos |-> NoPosition, createdNode |-> NoMeta]
  IN IF ~getNodeForOK(o, prevPos) \/ ~getNodeForOK(o, nextPos) THEN fail("invalid position")
     ELSE IF JsGe(compare(o, prevPos, nextPos), 0) THEN fail("prevPos >= nextPos")
     ELSE createPositionsBody(o, prevPos, nextPos, count, newNodeID)

\* Order.createPositions(prevPos, nextPos, count), newNodeID being what
\* this.newNodeID() returns if it is called: [error, order, startPos, createdNode]
createPositions(o, prevPos, nextPos, count, newNodeID) ==
  LET fail(e) == [error |-> e, order |-> o, startPos |-> NoPosition, createdNode |-> NoMeta]
  IN IF ~getNodeForOK(o, prevPos) \/ ~getNodeForOK(o, nextPos) THEN fail("invalid position")
     ELSE IF JsGe(compare(o, prevPos, nextPos), 0) THEN fail("prevPos >= nextPos")
     ELSE IF count < 1 THEN fail("invalid count")
     ELSE createPositionsBody(o, prevPos, nextPos, count, newNodeID)

\* Order.startPosToArray, as a set
startPosToArray(startPos, count) ==
  {[bunchID |-> startPos.bunchID, innerIndex |-> startPos.innerIndex + i] : i \in 0..(count - 1)}

(***************************************************************************)
(* Order: lex and unlex.                                                   *)
(***************************************************************************)
RECURSIVE dependencies(_, _)
\* NodeInternal.dependencies: the path from the root's child down to the node
dependencies(o, id) ==
  IF o.nodes[id].parent = Null THEN <<>>
  ELSE Append(dependencies(o, o.nodes[id].parent), id)

lexPrefix(o, id) ==
  LET deps == dependencies(o, id) IN
  combineNodePrefix([k \in 1..Len(deps) |-> meta(o.nodes[deps[k]])])

\* sequence(NaN) never leaves its loop: lex returns only when no offset that it
\* encodes is NaN
lexReturns(o, pos) ==
  LET deps == dependencies(o, pos.bunchID) IN
  \A k \in 2..Len(deps) : ~IsNaN(o.nodes[deps[k]].offset)

\* Order.lex(pos), for pos that getNodeFor accepts
lex(o, pos) == combinePos(lexPrefix(o, pos.bunchID), pos.innerIndex)

\* Order.unlex(lexPos): [error, order, pos]
unlex(o, lexPos) ==
  LET sp == splitPos(lexPos)
      bunchID == bunchIDFor(sp.nodePrefix)
      rcv == IF bunchID \in DOMAIN o.nodes THEN [error |-> "none", order |-> o]
             ELSE receive(o, splitNodePrefix(sp.nodePrefix))
  IN [error |-> rcv.error, order |-> rcv.order,
      pos |-> IF rcv.error = "none"
              THEN [bunchID |-> bunchID, innerIndex |-> sp.valueIndex]
              ELSE NoPosition]

(***************************************************************************)
(* The replicas.  Each replica owns one Order; newNodeID returns an id of  *)
(* the replica's own pool (the pools are disjoint: ids are globally        *)
(* unique), possibly one it has used before.  sent holds the metas handed  *)
(* to onCreateNode, minted the positions createPositions has returned.     *)
(***************************************************************************)
Replicas == {"r1", "r2"}

ID_a == <<97>>
ID_ab == <<97, 98>>

NodeIDs(r) == IF r = "r1" THEN {ID_a} ELSE {ID_ab}

NoEnc == [op |-> "none"]

\* the specifications of the Order hold no PositionSource and no List
NoSources == <<>>
NoList == <<>>

Init ==
  /\ tree = [r \in Replicas |-> NewOrder]
  /\ sent = {}
  /\ minted = {}
  /\ last = [op |-> "init"]
  /\ enc = NoEnc
  /\ ps = NoSources
  /\ list = NoList

\* the positions a caller holds: the sentinels and the created positions whose
\* bunch this Order knows
KnownPositions(o) ==
  {MIN_POSITION, MAX_POSITION} \cup {p \in minted : p.bunchID \in DOMAIN o.nodes}

\* the (parent bunch, offset) at which createPositions(prevPos, nextPos) makes a
\* child: a right child of prevPos or a left child of nextPos
TargetOf(o, prevPos, nextPos) ==
  IF ~isDescendant(o, nextPos, prevPos)
  THEN [parentID |-> prevPos.bunchID, offset |-> (2 * prevPos.innerIndex) + 1]
  ELSE [parentID |-> nextPos.bunchID, offset |-> 2 * nextPos.innerIndex]

NoTarget == [parentID |-> Null, offset |-> 0]

\* the bunches this Order has minted (createdCounter is set) at target
MintedAt(o, target) ==
  {id \in DOMAIN o.nodes : /\ o.nodes[id].createdCounter # Undefined
                           /\ o.nodes[id].parent = target.parentID
                           /\ o.nodes[id].offset = target.offset}

CounterBounded(o) == \A id \in DOMAIN o.nodes : o.nodes[id].createdCounter <= MaxCounter

CreatePositions(r) ==
  \E prevPos \in KnownPositions(tree[r]), nextPos \in KnownPositions(tree[r]),
     count \in 1..MaxCount, newNodeID \in NodeIDs(r) :
    \E res \in {createPositions(tree[r], prevPos, nextPos, count, newNodeID)} :
      /\ CounterBounded(res.order)
      /\ tree' = [tree EXCEPT ![r] = res.order]
      /\ sent' = IF res.createdNode = NoMeta THEN sent ELSE sent \cup {res.createdNode}
      /\ minted' = IF res.error = "none"
                   THEN minted \cup startPosToArray(res.startPos, count) ELSE minted
      /\ last' = [op |-> "createPositions", r |-> r, count |-> count, error |-> res.error,
                  startPos |-> res.startPos, createdNode |-> res.createdNode,
                  target |-> IF res.error = "none"
                                /\ MintedAt(tree[r], TargetOf(tree[r], prevPos, nextPos)) # {}
                             THEN TargetOf(tree[r], prevPos, nextPos) ELSE NoTarget]
      /\ UNCHANGED <<enc, ps, list>>

\* the batches of at most MaxBatch metas drawn from a set
Batches(metas) == UNION {[1..n -> metas] : n \in 1..MaxBatch}

Receive(r) ==
  \E nodeMetas \in Batches(sent) :
    \E res \in {receive(tree[r], nodeMetas)} :
      /\ tree' = [tree EXCEPT ![r] = res.order]
      /\ last' = [op |-> "receive", r |-> r, error |-> res.error]
      /\ UNCHANGED <<sent, minted, enc, ps, list>>

\* load(savedState) with the saved state of another replica
Load(r) ==
  \E from \in Replicas \ {r} :
    \E res \in {receive(tree[r], save(tree[from]))} :
      /\ tree' = [tree EXCEPT ![r] = res.order]
      /\ last' = [op |-> "load", r |-> r, error |-> res.error]
      /\ UNCHANGED <<sent, minted, enc, ps, list>>

Next == \E r \in Replicas : CreatePositions(r) \/ Receive(r) \/ Load(r)

Spec == Init /\ [][Next]_vars

(***************************************************************************)
(* The replicas with lex and unlex: a replica turns a position it holds    *)
(* into a string, and a replica (the same or the other) calls unlex on it. *)
(***************************************************************************)
Unlex(r) ==
  \E from \in Replicas :
    \E pos \in KnownPositions(tree[from]) :
      /\ lexReturns(tree[from], pos)
      /\ \E res \in {unlex(tree[r], lex(tree[from], pos))} :
           /\ tree' = [tree EXCEPT ![r] = res.order]
           /\ last' = [op |-> "unlex", r |-> r, pos |-> pos,
                       fresh |-> pos.bunchID \notin DOMAIN tree[r].nodes,
                       error |-> res.error, result |-> res.pos]
           /\ UNCHANGED <<sent, minted, enc, ps, list>>

NextLex == \E r \in Replicas : CreatePositions(r) \/ Receive(r) \/ Unlex(r)

SpecLex == Init /\ [][NextLex]_vars

(***************************************************************************)
(* One Order that receives any batch of metas: two ids with any parent     *)
(* (themselves and each other included) and any offset of a small range, a *)
(* meta with an unknown parent, a meta of the root and a meta with an      *)
(* invalid id.                                                             *)
(***************************************************************************)
\* receive (SpecRecv) is called with batches of at most MaxRecvBatch metas
MaxRecvBatch == 2
\* and with offsets in 1..MaxRecvOffset
MaxRecvOffset == 2

\* "a.b", which BunchIDs.validate rejects, and "zz", which no meta describes
ID_invalid == <<97, 46, 98>>
ID_unknown == <<122, 122>>

MetaUniverse ==
  [bunchID : {ID_a, ID_ab}, parentID : {ROOT, ID_a, ID_ab}, offset : 1..MaxRecvOffset]
  \cup {[bunchID |-> ID_a, parentID |-> ID_unknown, offset |-> 1],
        [bunchID |-> ROOT, parentID |-> ROOT, offset |-> 1],
        [bunchID |-> ID_invalid, parentID |-> ROOT, offset |-> 1]}

InitRecv ==
  /\ tree = [r \in {"r1"} |-> NewOrder]
  /\ sent = {}
  /\ minted = {}
  /\ last = [op |-> "init"]
  /\ enc = NoEnc
  /\ ps = NoSources
  /\ list = NoList

ReceiveAny ==
  \E nodeMetas \in UNION {[1..n -> MetaUniverse] : n \in 1..MaxRecvBatch} :
    \E res \in {receive(tree["r1"], nodeMetas)} :
      /\ tree' = [tree EXCEPT !["r1"] = res.order]
      /\ last' = [op |-> "receive", r |-> "r1", error |-> res.error,
                  length |-> Len(nodeMetas),
                  firstAlone |-> receive(tree["r1"], <<nodeMetas[1]>>).error]
      /\ UNCHANGED <<sent, minted, enc, ps, list>>

NextRecv == ReceiveAny

SpecRecv == InitRecv /\ [][NextRecv]_vars

(***************************************************************************)
(* The number encoding as a state machine: two numbers are drawn and       *)
(* encoded.                                                                *)
(***************************************************************************)
InitEnc ==
  /\ tree = <<>>
  /\ sent = {}
  /\ minted = {}
  /\ last = [op |-> "init"]
  /\ \E n \in 0..MaxEncode, m \in 0..MaxEncode :
       enc = [op |-> "draw", n |-> n, m |-> m]
  /\ ps = NoSources
  /\ list = NoList

Encode ==
  /\ enc.op = "draw"
  /\ enc' = [op |-> "encode", n |-> enc.n, m |-> enc.m,
             seqN |-> sequence(enc.n), seqM |-> sequence(enc.m),
             encN |-> encodeOffset(enc.n), encM |-> encodeOffset(enc.m),
             decN |-> decodeOffset(encodeOffset(enc.n))]
  /\ UNCHANGED <<tree, sent, minted, last, ps, list>>

NextEnc == Encode

SpecEnc == InitEnc /\ [][NextEnc]_vars

(***************************************************************************)
(* The claims.                                                             *)
(***************************************************************************)
\* the positions getNodeFor accepts, with innerIndex up to MaxInner
ValidPositions(o) ==
  {MIN_POSITION, MAX_POSITION} \cup
  {[bunchID |-> id, innerIndex |-> i] : id \in (DOMAIN o.nodes) \ {ROOT}, i \in 0..MaxInner}

\* the BunchMetas an Order has installed
InstalledMetas(o) == {meta(o.nodes[id]) : id \in (DOMAIN o.nodes) \ {ROOT}}

\* the sign of the plain string comparison of s and t
StrSign(s, t) == IF StrLess(s, t) THEN -1 ELSE IF StrLess(t, s) THEN 1 ELSE 0

\* C1: insertion bounds. In every reachable state of every replica, for every
\* prevPos and nextPos the caller holds (sentinels or created positions whose
\* bunch is installed) and every count, if createPositions returns then every
\* position p of the returned run has compare(prevPos, p) < 0 and
\* compare(p, nextPos) < 0.
C1_InsertionBounds ==
  \A r \in Replicas :
    \A prevPos \in KnownPositions(tree[r]), nextPos \in KnownPositions(tree[r]) :
      \A count \in 1..MaxCount, newNodeID \in NodeIDs(r) :
        LET res == createPositions(tree[r], prevPos, nextPos, count, newNodeID) IN
        res.error = "none" =>
          \A p \in startPosToArray(res.startPos, count) :
            /\ JsLt(compare(res.order, prevPos, p), 0)
            /\ JsLt(compare(res.order, p, nextPos), 0)

\* C2: compare is antisymmetric and irreflexive. For all valid positions a, b
\* of an Order, compare(a, b) = 0 exactly when a and b are the same position,
\* and the sign of compare(a, b) is minus the sign of compare(b, a).
C2_Antisymmetric ==
  \A r \in Replicas :
    \A a \in ValidPositions(tree[r]), b \in ValidPositions(tree[r]) :
      /\ (compare(tree[r], a, b) = 0) <=> (a = b)
      /\ Sign(compare(tree[r], a, b)) = 0 - Sign(compare(tree[r], b, a))

\* C3: compare is transitive. For all valid positions a, b, c of an Order,
\* compare(a, b) < 0 and compare(b, c) < 0 imply compare(a, c) < 0.
C3_Transitive ==
  \A r \in Replicas :
    \A a \in ValidPositions(tree[r]), b \in ValidPositions(tree[r]),
       c \in ValidPositions(tree[r]) :
      (compare(tree[r], a, b) < 0 /\ compare(tree[r], b, c) < 0)
        => compare(tree[r], a, c) < 0

\* C4: the sentinels are extreme. In every Order reached by receive,
\* createPositions and unlex, every valid position p of a non-root bunch has
\* compare(MIN_POSITION, p) < 0, compare(p, MIN_POSITION) > 0,
\* compare(p, MAX_POSITION) < 0 and compare(MAX_POSITION, p) > 0.
C4_SentinelsExtreme ==
  \A r \in Replicas :
    \A p \in ValidPositions(tree[r]) \ {MIN_POSITION, MAX_POSITION} :
      /\ JsLt(compare(tree[r], MIN_POSITION, p), 0)
      /\ JsGt(compare(tree[r], p, MIN_POSITION), 0)
      /\ JsLt(compare(tree[r], p, MAX_POSITION), 0)
      /\ JsGt(compare(tree[r], MAX_POSITION, p), 0)

\* C5: replica convergence. Two Orders that have installed the same set of
\* BunchMetas hold the same children sequence for every bunch and return the
\* same sign from compare for every pair of valid positions.
C5_Convergence ==
  \A r1 \in Replicas, r2 \in Replicas :
    InstalledMetas(tree[r1]) = InstalledMetas(tree[r2]) =>
      /\ \A id \in DOMAIN tree[r1].nodes :
           tree[r1].nodes[id].children = tree[r2].nodes[id].children
      /\ \A a \in ValidPositions(tree[r1]), b \in ValidPositions(tree[r1]) :
           Sign(compare(tree[r1], a, b)) = Sign(compare(tree[r2], a, b))

\* C5 witness: the two replicas hold the same two sibling bunches, installed
\* in different orders (one minted its bunch first, the other received it).
C5_Witness ==
  /\ InstalledMetas(tree["r1"]) = InstalledMetas(tree["r2"])
  /\ Len(tree["r1"].nodes[ROOT].children) = 2
  /\ tree["r1"].keys # tree["r2"].keys

\* C6: receive is all-or-nothing. Whenever receive throws, the Order (its set
\* of bunches, every children list, createdCounter and createdChildren) is
\* exactly as before the call.
C6_ReceiveAtomic ==
  [][(last'.op = "receive" /\ last'.error # "none") => tree' = tree]_vars

\* C6 witness: a receive of several metas has thrown on an Order that holds
\* bunches, although the first meta of the batch, received alone, would have
\* been installed.
C6_Witness ==
  /\ last.op = "receive"
  /\ last.error # "none"
  /\ last.length > 1
  /\ last.firstAlone = "none"
  /\ Len(tree["r1"].keys) > 1

\* C7: lex agreement. For all valid positions a, b of an Order, the sign of
\* compare(a, b) is the sign of the string comparison of lex(a) and lex(b).
C7_LexAgreement ==
  \A r \in Replicas :
    \A a \in ValidPositions(tree[r]), b \in ValidPositions(tree[r]) :
      Sign(compare(tree[r], a, b)) = StrSign(lex(tree[r], a), lex(tree[r], b))

\* C8: position round trip. Whenever unlex is called on lex(p) of a position p
\* (on the same Order or on one that has not received p's bunch), it returns a
\* position with the bunchID and innerIndex of p.
C8_PositionRoundTrip ==
  last.op = "unlex" => (last.error = "none" /\ last.result = last.pos)

\* the tree path of a bunch, as combineNodePrefix takes it
PathMetas(o, id) ==
  LET deps == dependencies(o, id) IN [k \in 1..Len(deps) |-> meta(o.nodes[deps[k]])]

\* C9: node-prefix round trip. For every tree path m of an Order,
\* splitNodePrefix(combineNodePrefix(m)) = m field for field, the offset of the
\* root's child included; hence a bunch learned through unlex is installed as
\* it was minted, and a receive of minted BunchMetas never fails as a conflict.
C9_NodePrefixRoundTrip ==
  /\ \A r \in Replicas :
       \A id \in (DOMAIN tree[r].nodes) \ {ROOT} :
         lexReturns(tree[r], [bunchID |-> id, innerIndex |-> 0]) =>
           splitNodePrefix(combineNodePrefix(PathMetas(tree[r], id))) = PathMetas(tree[r], id)
  /\ InstalledMetas(tree["r1"]) \cup InstalledMetas(tree["r2"]) \subseteq sent
  /\ (last.op = "receive" => last.error # "conflict")

\* the n-th number of the stated enumeration: (BASE/2)^d codes of d digits, the
\* first d-digit code being BASE^d - BASE * (BASE/2)^(d-1)
StatedSequence(n) ==
  LET l == SequenceLoop(n, 1) IN
  l.remaining + Pow(BASE, l.d) - BASE * Pow(BASE \div 2, l.d - 1)

\* C10: the number encoding follows the stated enumeration and is prefix-free:
\* sequence(n) is the n-th number of the enumeration (sequence(17) = 17,
\* sequence(18) = 648), encodeOffset(n) is its base-36 text, and for distinct
\* n, m encodeOffset(n) is not a prefix of encodeOffset(m).
C10_PrefixFreeEnumeration ==
  enc.op = "encode" =>
    /\ enc.seqN = StatedSequence(enc.n)
    /\ enc.encN = ToStringBase(StatedSequence(enc.n))
    /\ (enc.n # enc.m => ~IsPrefix(enc.encN, enc.encM))

(***************************************************************************)
(* Concurrent forward runs.  Two replicas build a common tree (each bunch  *)
(* one of them mints is received by the other at once), then both start    *)
(* from the same prevPos and nextPos and each creates a run                *)
(* p_i = createPositions(p_{i-1}, nextPos) without receiving the other's   *)
(* bunches; at the end a third Order receives the saved states of both.    *)
(***************************************************************************)
\* the common tree is built by at most MaxBase createPositions calls
MaxBase == 2
\* and each replica's run holds at most MaxRun positions
MaxRun == 2

ID_b == <<98>>

\* the ids newNodeID returns on replica r are "a0", "a1", ... on r1 and
\* "b0", "b1", ... on r2
IDLetter(r) == IF r = "r1" THEN LowerA ELSE LowerA + 1

\* the id newNodeID returns next on replica r: the first one it has not used
FreshID(r, o) ==
  <<IDLetter(r)>> \o
  NatToString(Cardinality({id \in DOMAIN o.nodes : id[1] = IDLetter(r)}))

Other(r) == IF r = "r1" THEN "r2" ELSE "r1"

InitFwd ==
  /\ tree = [r \in {"r1", "r2", "m"} |-> NewOrder]
  /\ sent = {}
  /\ minted = {}
  /\ last = [op |-> "init", phase |-> "base", steps |-> 0,
             prevPos |-> NoPosition, nextPos |-> NoPosition,
             run |-> [r \in Replicas |-> <<>>]]
  /\ enc = NoEnc
  /\ ps = NoSources
  /\ list = NoList

\* replica r creates positions of the common tree; the other replica receives
\* the BunchMeta handed to onCreateNode
BaseCreate(r) ==
  /\ last.phase = "base"
  /\ last.steps < MaxBase
  /\ \E prevPos \in KnownPositions(tree[r]), nextPos \in KnownPositions(tree[r]),
        count \in 1..MaxCount :
       \E res \in {createPositions(tree[r], prevPos, nextPos, count, FreshID(r, tree[r]))} :
         /\ res.error = "none"
         /\ tree' = [tree EXCEPT
                       ![r] = res.order,
                       ![Other(r)] = IF res.createdNode = NoMeta THEN @
                                     ELSE receive(@, <<res.createdNode>>).order]
         /\ sent' = IF res.createdNode = NoMeta THEN sent ELSE sent \cup {res.createdNode}
         /\ minted' = minted \cup startPosToArray(res.startPos, count)
         /\ last' = [last EXCEPT !.op = "base", !.steps = @ + 1]
         /\ UNCHANGED <<enc, ps, list>>

\* the two replicas agree on prevPos < nextPos
Fork ==
  /\ last.phase = "base"
  /\ \E prevPos \in KnownPositions(tree["r1"]), nextPos \in KnownPositions(tree["r1"]) :
       /\ JsLt(compare(tree["r1"], prevPos, nextPos), 0)
       /\ JsLt(compare(tree["r2"], prevPos, nextPos), 0)
       /\ last' = [last EXCEPT !.op = "fork", !.phase = "run",
                               !.prevPos = prevPos, !.nextPos = nextPos]
  /\ UNCHANGED <<tree, sent, minted, enc, ps, list>>

\* replica r extends its run: createPositions(p_{i-1}, nextPos), p_0 = prevPos
Forward(r) ==
  /\ last.phase = "run"
  /\ Len(last.run[r]) < MaxRun
  /\ LET p == IF last.run[r] = <<>> THEN last.prevPos
              ELSE last.run[r][Len(last.run[r])]
     IN \E res \in {createPositions(tree[r], p, last.nextPos, 1, FreshID(r, tree[r]))} :
          /\ res.error = "none"
          /\ tree' = [tree EXCEPT ![r] = res.order]
          /\ sent' = IF res.createdNode = NoMeta THEN sent ELSE sent \cup {res.createdNode}
          /\ last' = [last EXCEPT !.op = "forward", !.run[r] = Append(@, res.startPos)]
          /\ UNCHANGED <<minted, enc, ps, list>>

\* a third Order receives the BunchMetas of both replicas, in either order
Merge ==
  /\ last.phase = "run"
  /\ \A r \in Replicas : last.run[r] # <<>>
  /\ \E first \in Replicas :
       \E res \in {receive(receive(tree["m"], save(tree[first])).order,
                           save(tree[Other(first)]))} :
         /\ res.error = "none"
         /\ tree' = [tree EXCEPT !["m"] = res.order]
         /\ last' = [last EXCEPT !.op = "merge", !.phase = "merged"]
         /\ UNCHANGED <<sent, minted, enc, ps, list>>

NextFwd == (\E r \in Replicas : BaseCreate(r) \/ Forward(r)) \/ Fork \/ Merge

SpecFwd == InitFwd /\ [][NextFwd]_vars

\* the elements of a sequence
Range(s) == {s[k] : k \in 1..Len(s)}

\* sorting with compare puts every position of run1 before every position of run2
AllBefore(o, run1, run2) ==
  \A p \in run1, q \in run2 : JsLt(compare(o, p, q), 0) /\ JsGt(compare(o, q, p), 0)

\* C11: forward non-interleaving. When replicas r1 and r2 have each created a
\* run by createPositions(p_{i-1}, nextPos) from the same prevPos and nextPos
\* without receiving each other's bunches, then in an Order that has received
\* the BunchMetas of both, compare puts every position of one run before every
\* position of the other run.
C11_ForwardNonInterleaving ==
  last.op = "merge" =>
    \/ AllBefore(tree["m"], Range(last.run["r1"]), Range(last.run["r2"]))
    \/ AllBefore(tree["m"], Range(last.run["r2"]), Range(last.run["r1"]))

(***************************************************************************)
(* PositionSource.  A source is its ID and its lastValueIndices, an array  *)
(* kept as a sequence (lastValueIndices[counter] is element counter + 1).  *)
(***************************************************************************)
LowerL == 108
LowerR == 114
UpperA == 65

FIRST == <<>>
LAST == <<Tilde>>

Min(a, b) == IF a < b THEN a ELSE b
Max(a, b) == IF a > b THEN a ELSE b

\* s.slice(start, end): a negative index counts from the end of s
JsSlice(s, start, end) ==
  LET norm(i) == IF i < 0 THEN Max(Len(s) + i, 0) ELSE Min(i, Len(s))
  IN IF norm(start) >= norm(end) THEN <<>>
     ELSE SubSeq(s, norm(start) + 1, norm(end))

\* s.lastIndexOf(c, fromIndex): the index (0-based) of the last c at or before
\* fromIndex, -1 when there is none; a negative fromIndex counts as 0
JsLastIndexOf(s, c, fromIndex) ==
  LET from == Min(Max(fromIndex, 0), Len(s) - 1)
      hits == {i \in 0..from : s[i + 1] = c}
  IN IF hits = {} THEN -1 ELSE CHOOSE i \in hits : \A j \in hits : j <= i

ToUpperCase(s) ==
  [k \in 1..Len(s) |-> IF s[k] >= LowerA /\ s[k] < LowerA + 26
                       THEN s[k] - LowerA + UpperA ELSE s[k]]

ToLowerCase(s) ==
  [k \in 1..Len(s) |-> IF s[k] >= UpperA /\ s[k] < UpperA + 26
                       THEN s[k] - UpperA + LowerA ELSE s[k]]

stringifyNumber(n) == ToUpperCase(ToStringBase(n))

parseNumber(s) == ParseIntBase(ToLowerCase(s))

\* d is the number of base-36 digits of n
lexSucc(n) ==
  LET d == IF n = 0 THEN 1 ELSE Len(NatToString(n)) IN
  IF n = Pow(36, d) - Pow(18, d) - 1 THEN (n + 1) * 36 ELSE n + 1

\* newWaypoint without the ID: the text is `${counter},0r`
newWaypointNoID(lastValueIndices, ID) ==
  [lastValueIndices |-> Append(lastValueIndices, 0),
   text |-> stringifyNumber(Len(lastValueIndices)) \o <<Comma, Digit0, LowerR>>]

\* newWaypoint(): the text returned and the array after the push
newWaypoint(lastValueIndices, ID) ==
  [lastValueIndices |-> Append(lastValueIndices, 0),
   text |-> ID \o <<Comma>> \o stringifyNumber(Len(lastValueIndices))
            \o <<Comma, Digit0, LowerR>>]

\* this.lastValueIndices[leafCounter] === leafValueIndex
LastValueIndexIs(lastValueIndices, leafCounter, leafValueIndex) ==
  /\ ~IsNaN(leafCounter)
  /\ leafCounter >= 0
  /\ leafCounter < Len(lastValueIndices)
  /\ JsStrictEq(lastValueIndices[leafCounter + 1], leafValueIndex)

\* createRightChild without the reuse of the leaf waypoint
createRightChildNoReuse(lastValueIndices, ID, leftFixed) ==
  LET w == newWaypoint(lastValueIndices, ID) IN
  [lastValueIndices |-> w.lastValueIndices, text |-> leftFixed \o w.text]

\* the branch "right child of left" of createBetween, leftFixed not null
createRightChild(lastValueIndices, ID, leftFixed) ==
  LET lastComma == JsLastIndexOf(leftFixed, Comma, Len(leftFixed))
      secondLastComma == JsLastIndexOf(leftFixed, Comma, lastComma - 1)
      leafSender == JsSlice(leftFixed, secondLastComma - Len(ID), secondLastComma)
      leafCounter == parseNumber(JsSlice(leftFixed, secondLastComma + 1, lastComma))
      leafValueIndex == parseNumber(JsSlice(leftFixed, lastComma + 1, -1))
  IN IF leafSender = ID /\ LastValueIndexIs(lastValueIndices, leafCounter, leafValueIndex)
     THEN \* Success; reuse the leaf waypoint.
          LET valueIndex == lexSucc(leafValueIndex) IN
          [lastValueIndices |-> [lastValueIndices EXCEPT ![leafCounter + 1] = valueIndex],
           text |-> JsSlice(leftFixed, 0, lastComma + 1) \o stringifyNumber(valueIndex)
                    \o <<LowerR>>]
     ELSE LET w == newWaypoint(lastValueIndices, ID) IN
          [lastValueIndices |-> w.lastValueIndices, text |-> leftFixed \o w.text]

\* createBetween(left, right) on the source (ID, lastValueIndices):
\* [error, ans, lastValueIndices]; the array is as the call leaves it, also
\* when the final assertion throws
createBetween(lastValueIndices, ID, left, right) ==
  IF ~StrLess(left, right)
  THEN [error |-> "precond", ans |-> <<>>, lastValueIndices |-> lastValueIndices]
  ELSE IF StrLess(LAST, right)
  THEN [error |-> "precond", ans |-> <<>>, lastValueIndices |-> lastValueIndices]
  ELSE LET made ==
             IF right # LAST /\ (left = FIRST \/ IsPrefix(left, right))
             THEN \* Left child of right.
                  LET w == newWaypoint(lastValueIndices, ID) IN
                  [lastValueIndices |-> w.lastValueIndices,
                   text |-> JsSlice(right, 0, -1) \o <<LowerL>> \o w.text]
             ELSE IF left = FIRST THEN newWaypoint(lastValueIndices, ID)
             ELSE createRightChild(lastValueIndices, ID, left)
       IN [error |-> IF StrLess(left, made.text) /\ StrLess(made.text, right)
                     THEN "none" ELSE "assert",
           ans |-> made.text, lastValueIndices |-> made.lastValueIndices]

(***************************************************************************)
(* PositionSources with IDs "ab" and "b" call createBetween in any order,  *)
(* with FIRST, LAST and the strings returned so far as arguments.          *)
(***************************************************************************)
\* at most MaxCreated strings are created
MaxCreated == 4

SourceIDs == {ID_ab, ID_b}

InitPS ==
  /\ tree = <<>>
  /\ sent = {}
  /\ minted = {}
  /\ last = [op |-> "init"]
  /\ enc = NoEnc
  /\ ps = [lastValueIndices |-> [id \in SourceIDs |-> <<>>], created |-> {}]
  /\ list = NoList

CreateBetween(id) ==
  /\ Cardinality(ps.created) < MaxCreated
  /\ \E left \in {FIRST} \cup ps.created, right \in {LAST} \cup ps.created :
       /\ StrLess(left, right)
       /\ \E res \in {createBetween(ps.lastValueIndices[id], id, left, right)} :
            /\ ps' = [lastValueIndices |->
                        [ps.lastValueIndices EXCEPT ![id] = res.lastValueIndices],
                      created |-> IF res.error = "none" THEN ps.created \cup {res.ans}
                                  ELSE ps.created]
            /\ last' = [op |-> "createBetween", ID |-> id, left |-> left, right |-> right,
                        error |-> res.error, ans |-> res.ans,
                        dup |-> res.ans \in ps.created]
  /\ UNCHANGED <<tree, sent, minted, enc, list>>

NextPS == \E id \in SourceIDs : CreateBetween(id)

SpecPS == InitPS /\ [][NextPS]_vars

\* C12: createBetween bounds. For left < right <= LAST, both FIRST, LAST or
\* strings createBetween has returned, createBetween(left, right) returns a
\* string ans with left < ans < right in string order.
C12_CreateBetweenBounds ==
  last.op = "createBetween" =>
    /\ last.error = "none"
    /\ StrLess(last.left, last.ans)
    /\ StrLess(last.ans, last.right)

\* C13: uniqueness. With pairwise distinct IDs (one may be a suffix of
\* another), no call of createBetween returns a string that a call has
\* returned before.
C13_Unique ==
  (last.op = "createBetween" /\ last.error = "none") => ~last.dup

(***************************************************************************)
(* Concurrent runs of two PositionSources.  The sources first create some  *)
(* strings (any calls), then pick a string FIXED, and each source creates  *)
(* a run: createBetween(FIRST, FIXED), then createBetween(previous result, *)
(* FIXED), using only its own results.                                     *)
(***************************************************************************)
\* createBetween is called at most MaxPSBase times before the runs
MaxPSBase == 2
\* and each run holds RunLength strings at the end
RunLength == 3

InitPSRun ==
  /\ tree = <<>>
  /\ sent = {}
  /\ minted = {}
  /\ last = [op |-> "init", phase |-> "base", fixed |-> LAST,
             run |-> [id \in SourceIDs |-> <<>>]]
  /\ enc = NoEnc
  /\ ps = [lastValueIndices |-> [id \in SourceIDs |-> <<>>], created |-> {}]
  /\ list = NoList

BaseCreateBetween(id) ==
  /\ last.phase = "base"
  /\ Cardinality(ps.created) < MaxPSBase
  /\ \E left \in {FIRST} \cup ps.created, right \in {LAST} \cup ps.created :
       /\ StrLess(left, right)
       /\ \E res \in {createBetween(ps.lastValueIndices[id], id, left, right)} :
            /\ res.error = "none"
            /\ ps' = [lastValueIndices |->
                        [ps.lastValueIndices EXCEPT ![id] = res.lastValueIndices],
                      created |-> ps.created \cup {res.ans}]
  /\ last' = [last EXCEPT !.op = "base"]
  /\ UNCHANGED <<tree, sent, minted, enc, list>>

ChooseFixed ==
  /\ last.phase = "base"
  /\ \E fixed \in {LAST} \cup ps.created :
       last' = [last EXCEPT !.op = "fixed", !.phase = "run", !.fixed = fixed]
  /\ UNCHANGED <<tree, sent, minted, enc, ps, list>>

RunCreateBetween(id) ==
  /\ last.phase = "run"
  /\ Len(last.run[id]) < RunLength
  /\ LET left == IF last.run[id] = <<>> THEN FIRST ELSE last.run[id][Len(last.run[id])]
     IN \E res \in {createBetween(ps.lastValueIndices[id], id, left, last.fixed)} :
          /\ res.error = "none"
          /\ ps' = [ps EXCEPT !.lastValueIndices[id] = res.lastValueIndices]
          /\ last' = [last EXCEPT !.op = "run", !.run[id] = Append(@, res.ans)]
  /\ UNCHANGED <<tree, sent, minted, enc, list>>

NextPSRun ==
  (\E id \in SourceIDs : BaseCreateBetween(id) \/ RunCreateBetween(id)) \/ ChooseFixed

SpecPSRun == InitPSRun /\ [][NextPSRun]_vars

\* C14: PositionSource non-interleaving. When sources A and B have each created
\* a1, a2, a3 (b1, b2, b3) by createBetween(previous result, FIXED) starting
\* from (FIRST, FIXED), the string order puts all of A's strings before all of
\* B's or all of B's before all of A's.
C14_SourceNonInterleaving ==
  (\A id \in SourceIDs : Len(last.run[id]) = RunLength) =>
    \/ \A a \in Range(last.run[ID_ab]), b \in Range(last.run[ID_b]) : StrLess(a, b)
    \/ \A a \in Range(last.run[ID_ab]), b \in Range(last.run[ID_b]) : StrLess(b, a)

\* C14 witness: both runs are complete, FIXED is a created string and the
\* runs were made by sources that had created strings before
C14_Witness ==
  /\ \A id \in SourceIDs : Len(last.run[id]) = RunLength
  /\ last.fixed # LAST
  /\ \A id \in SourceIDs : Len(ps.lastValueIndices[id]) > 1

\* C20: the reuse exception. Whenever createPositions returns for a prevPos
\* and nextPos that target a (parent bunch, offset) at which this Order has
\* minted a bunch, it mints no bunch (createdNode is null, onCreateNode is not
\* called, the set of bunches is unchanged) and returns the next unused
\* innerIndex of that bunch: positions it has never returned before.
C20_ReuseException ==
  [][(last'.op = "createPositions" /\ last'.error = "none" /\ last'.target # NoTarget) =>
       /\ last'.createdNode = NoMeta
       /\ sent' = sent
       /\ DOMAIN tree'[last'.r].nodes = DOMAIN tree[last'.r].nodes
       /\ \E id \in MintedAt(tree[last'.r], last'.target) :
            last'.startPos = [bunchID |-> id,
                              innerIndex |-> tree[last'.r].nodes[id].createdCounter]
       /\ startPosToArray(last'.startPos, last'.count) \cap minted = {}]_vars

\* C20 witness: the second of two createPositions(MIN_POSITION, MAX_POSITION)
\* calls on a fresh Order has returned innerIndex 1 of the bunch the first call
\* minted under the root
C20_Witness ==
  /\ last.op = "createPositions"
  /\ last.error = "none"
  /\ last.target = [parentID |-> ROOT, offset |-> 2]
  /\ last.count = 1
  /\ last.startPos.innerIndex = 1
  /\ last.createdNode = NoMeta
  /\ Len(tree[last.r].keys) = 2
  /\ tree[last.r].nodes[last.startPos.bunchID].parent = ROOT

(***************************************************************************)
(* List.  The state of a List is its Map from bunches to NodeInfo, kept as *)
(* a function from bunch ids to [total, items].  An item is a record:      *)
(* Present(values) for a T[] of present values, Deleted(count) for a       *)
(* number of deleted values.  The List names a Position's fields           *)
(* (creatorID, timestamp) and valueIndex and a bunch's parentNode and      *)
(* parentValueIndex; in the Order they are bunchID, innerIndex, parent and *)
(* nextInnerIndex.                                                         *)
(***************************************************************************)
Present(values) == [isNumber |-> FALSE, count |-> 0, values |-> values]
Deleted(count) == [isNumber |-> TRUE, count |-> count, values |-> <<>>]

\* typeof item === "number" ? item : item.length
ItemSize(item) == IF item.isNumber THEN item.count ELSE Len(item.values)

\* items.splice(startIndex, deleteCount, ...newItems), startIndex 0-based
SpliceItems(items, startIndex, deleteCount, newItems) ==
  SubSeq(items, 1, startIndex) \o newItems
  \o SubSeq(items, startIndex + deleteCount + 1, Len(items))

\* the List after its constructor (and after clear)
NewList == [id \in {} |-> [total |-> 0, items |-> <<>>]]

\* List.total(node)
List_total(st, node) == IF node \in DOMAIN st THEN st[node].total ELSE 0

\* List.length
List_length(st) == List_total(st, ROOT)

\* updateTotals that changes the total of node only, not of its ancestors
List_updateTotalsNodeOnly(o, st, current, delta) ==
  IF current \in DOMAIN st THEN [st EXCEPT ![current].total = @ + delta]
  ELSE MapSet(st, current, [total |-> delta, items |-> <<>>])

RECURSIVE List_updateTotals(_, _, _, _)
\* List.updateTotals(node, delta): current walks from node up to the root
List_updateTotals(o, st, current, delta) ==
  IF current = Null THEN st
  ELSE List_updateTotals(o,
         IF current \in DOMAIN st THEN [st EXCEPT ![current].total = @ + delta]
         ELSE MapSet(st, current, [total |-> delta, items |-> <<>>]),
         o.nodes[current].parent, delta)

\* setInDeleted that drops the rest of the deleted run after the value
setInDeletedNoRest(items, i, remaining, value) ==
  LET curItem == items[i + 1].count
      mergeLeft == remaining = 0 /\ i # 0
      run == Present((IF mergeLeft THEN items[i].values ELSE <<>>) \o <<value>>)
      newItems == (IF remaining # 0 THEN <<Deleted(remaining)>> ELSE <<>>) \o <<run>>
  IN IF remaining = curItem - 1 /\ i # Len(items) - 1
     THEN SpliceItems(items, IF mergeLeft THEN i - 1 ELSE i,
                      2 + (IF mergeLeft THEN 1 ELSE 0),
                      (IF remaining # 0 THEN <<Deleted(remaining)>> ELSE <<>>)
                        \o <<Present(run.values \o items[i + 2].values)>>)
     ELSE SpliceItems(items, IF mergeLeft THEN i - 1 ELSE i,
                      1 + (IF mergeLeft THEN 1 ELSE 0), newItems)

\* set: the items that replace the deleted run items[i] (i 0-based) when the
\* value goes to its index remaining
setInDeleted(items, i, remaining, value) ==
  LET curItem == items[i + 1].count
      mergeLeft == remaining = 0 /\ i # 0
      mergeRight == remaining = curItem - 1 /\ i # Len(items) - 1
      run == Present((IF mergeLeft THEN items[i].values ELSE <<>>) \o <<value>>
                     \o (IF mergeRight THEN items[i + 2].values ELSE <<>>))
      newItems == (IF remaining # 0 THEN <<Deleted(remaining)>> ELSE <<>>) \o <<run>>
                  \o (IF remaining # curItem - 1
                      THEN <<Deleted(curItem - 1 - remaining)>> ELSE <<>>)
  IN SpliceItems(items, IF mergeLeft THEN i - 1 ELSE i,
                 1 + (IF mergeLeft THEN 1 ELSE 0) + (IF mergeRight THEN 1 ELSE 0),
                 newItems)

RECURSIVE setLoop(_, _, _, _)
\* the loop of set over items from index i (0-based): [ret, items], ret being
\* what set returns, or "fallthrough" with the remaining index when the loop
\* ends
setLoop(items, i, remaining, value) ==
  IF i >= Len(items) THEN [ret |-> "fallthrough", remaining |-> remaining, items |-> items]
  ELSE LET curItem == items[i + 1] IN
       IF ~curItem.isNumber
       THEN IF remaining < Len(curItem.values)
            THEN [ret |-> "false", remaining |-> remaining,
                  items |-> [items EXCEPT ![i + 1].values[remaining + 1] = value]]
            ELSE setLoop(items, i + 1, remaining - Len(curItem.values), value)
       ELSE IF remaining < curItem.count
            THEN [ret |-> "true", remaining |-> remaining,
                  items |-> setInDeleted(items, i, remaining, value)]
            ELSE setLoop(items, i + 1, remaining - curItem.count, value)

\* List.set(pos, value), pos a position getNodeFor accepts: [ret, state]
List_set(o, st, pos, value) ==
  LET node == pos.bunchID IN
  IF node \notin DOMAIN st
  THEN [ret |-> TRUE,
        state |-> List_updateTotals(o,
                    MapSet(st, node,
                           [total |-> 0,
                            items |-> IF pos.innerIndex = 0 THEN <<Present(<<value>>)>>
                                      ELSE <<Deleted(pos.innerIndex), Present(<<value>>)>>]),
                    node, 1)]
  ELSE LET l == setLoop(st[node].items, 0, pos.innerIndex, value) IN
       IF l.ret = "false" THEN [ret |-> FALSE, state |-> [st EXCEPT ![node].items = l.items]]
       ELSE IF l.ret = "true"
       THEN [ret |-> TRUE,
             state |-> List_updateTotals(o, [st EXCEPT ![node].items = l.items], node, 1)]
       ELSE LET items == l.items
                pushed == IF l.remaining # 0
                          THEN items \o <<Deleted(l.remaining), Present(<<value>>)>>
                          ELSE IF Len(items) = 0 THEN <<Present(<<value>>)>>
                          ELSE [items EXCEPT ![Len(items)].values = Append(@, value)]
            IN [ret |-> TRUE,
                state |-> List_updateTotals(o, [st EXCEPT ![node].items = pushed], node, 1)]

\* delete: the items that replace the present run items[i] (i 0-based) when
\* its value at index remaining is deleted, before the final pop
deleteInPresent(items, i, remaining) ==
  LET curItem == items[i + 1].values
      mergeLeft == remaining = 0 /\ i # 0
      mergeRight == remaining = Len(curItem) - 1 /\ i # Len(items) - 1
      gap == Deleted(1 + (IF mergeLeft THEN items[i].count ELSE 0)
                       + (IF mergeRight THEN items[i + 2].count ELSE 0))
      newItems == (IF remaining # 0 THEN <<Present(SubSeq(curItem, 1, remaining))>> ELSE <<>>)
                  \o <<gap>>
                  \o (IF remaining # Len(curItem) - 1
                      THEN <<Present(SubSeq(curItem, remaining + 2, Len(curItem)))>>
                      ELSE <<>>)
  IN SpliceItems(items, IF mergeLeft THEN i - 1 ELSE i,
                 1 + (IF mergeLeft THEN 1 ELSE 0) + (IF mergeRight THEN 1 ELSE 0),
                 newItems)

\* delete that keeps a last deleted item
popDeletedNever(items) == items

\* if the last item is a number (deleted), omit it
popDeleted(items) ==
  IF Len(items) > 0 /\ items[Len(items)].isNumber THEN SubSeq(items, 1, Len(items) - 1)
  ELSE items

RECURSIVE deleteLoop(_, _, _)
\* the loop of delete over items from index i (0-based): [ret, items]
deleteLoop(items, i, remaining) ==
  IF i >= Len(items) THEN [ret |-> FALSE, items |-> items]
  ELSE LET curItem == items[i + 1] IN
       IF curItem.isNumber
       THEN IF remaining < curItem.count THEN [ret |-> FALSE, items |-> items]
            ELSE deleteLoop(items, i + 1, remaining - curItem.count)
       ELSE IF remaining < Len(curItem.values)
            THEN [ret |-> TRUE, items |-> popDeleted(deleteInPresent(items, i, remaining))]
            ELSE deleteLoop(items, i + 1, remaining - Len(curItem.values))

\* List.delete(pos): [ret, state]
List_delete(o, st, pos) ==
  LET node == pos.bunchID IN
  IF node \notin DOMAIN st THEN [ret |-> FALSE, state |-> st]
  ELSE LET l == deleteLoop(st[node].items, 0, pos.innerIndex) IN
       IF l.ret
       THEN [ret |-> TRUE,
             state |-> List_updateTotals(o, [st EXCEPT ![node].items = l.items], node, -1)]
       ELSE [ret |-> FALSE, state |-> st]

\* List.clear()
List_clear(st) == NewList

RECURSIVE locate2Loop(_, _, _, _)
\* the loop of locate2 over items from the k-th (1-based)
locate2Loop(items, k, remaining, nodeValuesBefore) ==
  IF k > Len(items)
  THEN [value |-> Undefined, isPresent |-> FALSE, nodeValuesBefore |-> nodeValuesBefore]
  ELSE LET item == items[k] IN
       IF item.isNumber
       THEN IF remaining < item.count
            THEN [value |-> Undefined, isPresent |-> FALSE,
                  nodeValuesBefore |-> nodeValuesBefore]
            ELSE locate2Loop(items, k + 1, remaining - item.count, nodeValuesBefore)
       ELSE IF remaining < Len(item.values)
            THEN [value |-> item.values[remaining + 1], isPresent |-> TRUE,
                  nodeValuesBefore |-> nodeValuesBefore + remaining]
            ELSE locate2Loop(items, k + 1, remaining - Len(item.values),
                             nodeValuesBefore + Len(item.values))

\* List.locate2(node, valueIndex): [value, isPresent, nodeValuesBefore]
List_locate2(st, node, valueIndex) ==
  IF node \notin DOMAIN st
  THEN [value |-> Undefined, isPresent |-> FALSE, nodeValuesBefore |-> 0]
  ELSE locate2Loop(st[node].items, 1, valueIndex, 0)

List_get(st, pos) == List_locate2(st, pos.bunchID, pos.innerIndex).value

List_has(st, pos) == List_locate2(st, pos.bunchID, pos.innerIndex).isPresent

\* index that adds no total of the children of pos's bunch
indexChildrenNone(o, st, children, k, valueIndex) == 0

RECURSIVE indexChildren(_, _, _, _, _)
\* index: the totals of the children of pos's bunch that come before pos
indexChildren(o, st, children, k, valueIndex) ==
  IF k > Len(children) THEN 0
  ELSE IF nextInnerIndex(o.nodes[children[k]]) > valueIndex THEN 0
  ELSE List_total(st, children[k]) + indexChildren(o, st, children, k + 1, valueIndex)

RECURSIVE indexSiblings(_, _, _, _)
\* index: the totals of the siblings listed before current
indexSiblings(st, children, k, current) ==
  IF k > Len(children) THEN 0
  ELSE IF children[k] = current THEN 0
  ELSE List_total(st, children[k]) + indexSiblings(st, children, k + 1, current)

RECURSIVE indexWalkUp(_, _, _)
\* index: the walk up the tree from current
indexWalkUp(o, st, current) ==
  LET parentNode == o.nodes[current].parent IN
  IF parentNode = Null THEN 0
  ELSE List_locate2(st, parentNode, nextInnerIndex(o.nodes[current])).nodeValuesBefore
       + indexSiblings(st, o.nodes[parentNode].children, 1, current)
       + indexWalkUp(o, st, parentNode)

\* List.index(pos, searchDir), pos a position getNodeFor accepts
List_index(o, st, pos, searchDir) ==
  LET node == pos.bunchID
      loc == List_locate2(st, node, pos.innerIndex)
      valuesBefore == loc.nodeValuesBefore
                      + indexChildren(o, st, o.nodes[node].children, 1, pos.innerIndex)
                      + indexWalkUp(o, st, node)
  IN IF loc.isPresent THEN valuesBefore
     ELSE IF searchDir = "none" THEN -1
     ELSE IF searchDir = "left" THEN valuesBefore - 1
     ELSE valuesBefore

\* what valuesAndChildren yields
YieldValues(item, start, end, valueIndex) ==
  [isValues |-> TRUE, item |-> item.values, start |-> start, end |-> end,
   valueIndex |-> valueIndex, child |-> Null, total |-> 0]
YieldChild(child, total) ==
  [isValues |-> FALSE, item |-> <<>>, start |-> 0, end |-> 0, valueIndex |-> 0,
   child |-> child, total |-> total]

RECURSIVE vacChildLoop(_, _, _, _, _, _, _, _)
\* valuesAndChildren: the loop over the children that come before the end of
\* item: [out, childIndex, valueIndex]
vacChildLoop(o, st, children, childIndex, item, startValueIndex, valueIndex, out) ==
  LET endValueIndex == startValueIndex + ItemSize(item) IN
  IF childIndex >= Len(children)
  THEN [out |-> out, childIndex |-> childIndex, valueIndex |-> valueIndex]
  ELSE LET child == children[childIndex + 1]
           parentValueIndex == nextInnerIndex(o.nodes[child])
           total == List_total(st, child)
       IN IF parentValueIndex >= endValueIndex
          THEN [out |-> out, childIndex |-> childIndex, valueIndex |-> valueIndex]
          ELSE IF total # 0
          THEN vacChildLoop(o, st, children, childIndex + 1, item, startValueIndex,
                 IF valueIndex < parentValueIndex THEN parentValueIndex ELSE valueIndex,
                 out \o (IF valueIndex < parentValueIndex /\ ~item.isNumber
                         THEN <<YieldValues(item, valueIndex - startValueIndex,
                                            parentValueIndex - startValueIndex, valueIndex)>>
                         ELSE <<>>)
                     \o <<YieldChild(child, total)>>)
          ELSE vacChildLoop(o, st, children, childIndex + 1, item, startValueIndex,
                            valueIndex, out)

RECURSIVE vacRestLoop(_, _, _)
\* valuesAndChildren: the last loop, over the remaining children
vacRestLoop(st, children, childIndex) ==
  IF childIndex >= Len(children) THEN <<>>
  ELSE LET child == children[childIndex + 1]
           total == List_total(st, child)
       IN (IF total # 0 THEN <<YieldChild(child, total)>> ELSE <<>>)
          \o vacRestLoop(st, children, childIndex + 1)

RECURSIVE vacItemLoop(_, _, _, _, _, _, _, _)
\* valuesAndChildren: the loop over the items from the k-th (1-based), then
\* the loop over the remaining children
vacItemLoop(o, st, children, items, k, childIndex, startValueIndex, out) ==
  IF k > Len(items)
  THEN out \o vacRestLoop(st, children, childIndex)
  ELSE LET item == items[k]
           endValueIndex == startValueIndex + ItemSize(item)
           l == vacChildLoop(o, st, children, childIndex, item, startValueIndex,
                             startValueIndex, <<>>)
       IN vacItemLoop(o, st, children, items, k + 1, l.childIndex, endValueIndex,
            out \o l.out
                \o (IF ~item.isNumber /\ l.valueIndex < endValueIndex
                    THEN <<YieldValues(item, l.valueIndex - startValueIndex,
                                       ItemSize(item), l.valueIndex)>>
                    ELSE <<>>))

\* List.valuesAndChildren(node), for a node with an entry in the state: the
\* sequence it yields
List_valuesAndChildren(o, st, node) ==
  vacItemLoop(o, st, o.nodes[node].children, st[node].items, 1, 0, 0, <<>>)

RECURSIVE positionLoop(_, _, _, _, _, _)
\* position: the walk over what valuesAndChildren(node) yields, from the k-th
positionLoop(o, st, node, yielded, k, remaining) ==
  IF k > Len(yielded) THEN [error |-> "internal", pos |-> NoPosition]
  ELSE LET next == yielded[k] IN
       IF next.isValues
       THEN IF remaining < next.end - next.start
            THEN [error |-> "none",
                  pos |-> [bunchID |-> node, innerIndex |-> next.valueIndex + remaining]]
            ELSE positionLoop(o, st, node, yielded, k + 1,
                              remaining - (next.end - next.start))
       ELSE IF remaining < next.total
            THEN positionLoop(o, st, next.child,
                              List_valuesAndChildren(o, st, next.child), 1, remaining)
            ELSE positionLoop(o, st, node, yielded, k + 1, remaining - next.total)

\* List.position(index): [error, pos]
List_position(o, st, index) ==
  IF index < 0 \/ index >= List_length(st)
  THEN [error |-> "out of bounds", pos |-> NoPosition]
  ELSE positionLoop(o, st, ROOT, List_valuesAndChildren(o, st, ROOT), 1, index)

RECURSIVE entriesWalk(_, _, _, _, _)
\* entries: the walk over what valuesAndChildren(node) yields, from the k-th;
\* a child is walked (pushed on the stack) when it is yielded.  The result is
\* the sequence of [value, pos] in the order of the yields.
entriesWalk(o, st, node, yielded, k) ==
  IF k > Len(yielded) THEN <<>>
  ELSE LET valuesOrChild == yielded[k] IN
       (IF valuesOrChild.isValues
        THEN [i \in 1..(valuesOrChild.end - valuesOrChild.start) |->
                [value |-> valuesOrChild.item[valuesOrChild.start + i],
                 pos |-> [bunchID |-> node,
                          innerIndex |-> valuesOrChild.valueIndex + i - 1]]]
        ELSE entriesWalk(o, st, valuesOrChild.child,
                         List_valuesAndChildren(o, st, valuesOrChild.child), 1))
       \o entriesWalk(o, st, node, yielded, k + 1)

\* List.entries(): the sequence of [index, value, pos] it yields
List_entries(o, st) ==
  IF List_length(st) = 0 THEN <<>>
  ELSE LET walk == entriesWalk(o, st, ROOT, List_valuesAndChildren(o, st, ROOT), 1)
       IN [k \in 1..Len(walk) |->
             [index |-> k - 1, value |-> walk[k].value, pos |-> walk[k].pos]]

\* List.positions()
List_positions(o, st) ==
  LET e == List_entries(o, st) IN [k \in 1..Len(e) |-> e[k].pos]

\* save() that does not skip the bunches whose items are empty
List_saveAll(st) == [id \in DOMAIN st |-> st[id].items]

\* List.save(): the items of every bunch whose items are not empty, by bunch
\* id (the key order of the saved object is the sorted one)
List_save(st) ==
  [id \in {id \in DOMAIN st : Len(st[id].items) # 0} |-> st[id].items]

\* List.load(savedState): clear() and nothing else
List_load(st, savedState) == List_clear(st)

(***************************************************************************)
(* One List over one Order.  The Order installs bunches (receive) and      *)
(* mints positions (createPositions, called by insert); the List sets and  *)
(* deletes values at any position a caller can hold (received or created), *)
(* is cleared, and its saved state is loaded into another List.            *)
(***************************************************************************)
\* the List holds positions with innerIndex in 0..MaxListInner
MaxListInner == 2
\* installed bunches have offsets up to MaxListOffset
MaxListOffset == 3
\* the values are 1..MaxValue
MaxValue == 1

ListIDs == {ID_a, ID_b}

Values == 1..MaxValue

\* the positions a caller can hold, with innerIndex up to MaxListInner: the
\* sentinels, the positions of bunches received from other replicas, and the
\* positions this Order has created in the bunches it minted
ListPositions(o) ==
  {MIN_POSITION, MAX_POSITION} \cup
  {p \in [bunchID : (DOMAIN o.nodes) \ {ROOT}, innerIndex : 0..MaxListInner] :
     \/ o.nodes[p.bunchID].createdCounter = Undefined
     \/ p.innerIndex < o.nodes[p.bunchID].createdCounter}

InitList ==
  /\ tree = [r \in {"r1"} |-> NewOrder]
  /\ sent = {}
  /\ minted = {}
  /\ last = [op |-> "list"]
  /\ enc = NoEnc
  /\ ps = NoSources
  /\ list = NewList

\* the Order receives the BunchMeta of a bunch minted elsewhere: a child of the
\* root between MIN_POSITION and MAX_POSITION, or a child of another bunch
ListInstall ==
  \E id \in ListIDs \ DOMAIN tree["r1"].nodes, parentID \in DOMAIN tree["r1"].nodes,
     offset \in 0..MaxListOffset :
    /\ parentID = ROOT => offset = 1
    /\ \E res \in {receive(tree["r1"],
                           <<[bunchID |-> id, parentID |-> parentID, offset |-> offset]>>)} :
         /\ res.error = "none"
         /\ tree' = [tree EXCEPT !["r1"] = res.order]
    /\ last' = [op |-> "list"]
    /\ UNCHANGED <<sent, minted, enc, ps, list>>

\* the bunch ID a new bunch of the Order gets
ListFreshID(o) ==
  IF ListIDs \ DOMAIN o.nodes = {} THEN ID_a
  ELSE CHOOSE id \in ListIDs \ DOMAIN o.nodes : \A other \in ListIDs \ DOMAIN o.nodes : id = other \/ StrLess(id, other)

\* List.insert: a position is created in the Order (between prevPos and any
\* nextPos) and set
ListInsert ==
  \E prevPos \in ListPositions(tree["r1"]), nextPos \in ListPositions(tree["r1"]),
     value \in Values :
    \E res \in {createPositions(tree["r1"], prevPos, nextPos, 1, ListFreshID(tree["r1"]))} :
      /\ res.error = "none"
      /\ res.startPos.innerIndex <= MaxListInner
      /\ tree' = [tree EXCEPT !["r1"] = res.order]
      /\ list' = List_set(res.order, list, res.startPos, value).state
      /\ last' = [op |-> "list"]
      /\ UNCHANGED <<sent, minted, enc, ps>>

ListSet ==
  \E pos \in ListPositions(tree["r1"]), value \in Values :
    /\ list' = List_set(tree["r1"], list, pos, value).state
    /\ last' = [op |-> "list"]
    /\ UNCHANGED <<tree, sent, minted, enc, ps>>

ListDelete ==
  \E pos \in ListPositions(tree["r1"]) :
    /\ list' = List_delete(tree["r1"], list, pos).state
    /\ last' = [op |-> "list"]
    /\ UNCHANGED <<tree, sent, minted, enc, ps>>

ListClear ==
  /\ list' = List_clear(list)
  /\ last' = [op |-> "list"]
  /\ UNCHANGED <<tree, sent, minted, enc, ps>>

\* the List is replaced by another List over the same Order, new or holding the
\* same state, on which load(save()) of the replaced List has been called
ListLoad ==
  \E before \in {NewList, list} :
    /\ list' = List_load(before, List_save(list))
    /\ last' = [op |-> "load"]
    /\ UNCHANGED <<tree, sent, minted, enc, ps>>

NextList == ListInstall \/ ListInsert \/ ListSet \/ ListDelete \/ ListClear \/ ListLoad

SpecList == InitList /\ [][NextList]_vars

(***************************************************************************)
(* Properties of the List.                                                 *)
(***************************************************************************)
ListOrder == tree["r1"]

\* the positions for which has() is true
PresentPositions == {p \in ListPositions(ListOrder) : List_has(list, p)}

\* C15: index/position round-trip: position(i) followed by index returns i for
\* every i in [0, length), and position(index(p)) = p for every present p.
C15_IndexPositionRoundTrip ==
  /\ \A i \in 0..(List_length(list) - 1) :
       LET r == List_position(ListOrder, list, i)
       IN r.error = "none" /\ List_index(ListOrder, list, r.pos, "none") = i
  /\ \A p \in PresentPositions :
       LET i == List_index(ListOrder, list, p, "none")
       IN List_position(ListOrder, list, i) = [error |-> "none", pos |-> p]

\* a list with a present value in each of two bunches, one a child of the other
C15_Witness ==
  /\ C15_IndexPositionRoundTrip
  /\ \E p, q \in PresentPositions :
       /\ p.bunchID # ROOT
       /\ ListOrder.nodes[q.bunchID].parent = p.bunchID
       /\ List_index(ListOrder, list, q, "none") < List_index(ListOrder, list, p, "none")

RECURSIVE SumTotals(_, _, _)
\* the sum of the totals of the bunches children[k..]
SumTotals(st, children, k) ==
  IF k > Len(children) THEN 0
  ELSE List_total(st, children[k]) + SumTotals(st, children, k + 1)

\* C16: for every bunch the stored total equals the number of present values
\* in that bunch plus the sum of the totals of its child bunches (0 for
\* untracked bunches), and length equals the number of positions for which
\* has() is true.
C16_SubtreeTotals ==
  /\ \A id \in DOMAIN ListOrder.nodes :
       List_total(list, id) =
         Cardinality({p \in PresentPositions : p.bunchID = id})
         + SumTotals(list, ListOrder.nodes[id].children, 1)
  /\ List_length(list) = Cardinality(PresentPositions)

\* a child bunch with present values under a parent bunch with present values
C16_Witness ==
  /\ C16_SubtreeTotals
  /\ \E id \in DOMAIN ListOrder.nodes :
       /\ id # ROOT
       /\ SumTotals(list, ListOrder.nodes[id].children, 1) > 0
       /\ List_total(list, id) > SumTotals(list, ListOrder.nodes[id].children, 1)

\* C17: every bunch's items array strictly alternates between present runs and
\* deleted runs, contains no empty present run and no zero deleted count, and
\* does not end with a deleted run.
C17_RunArrayWellFormed ==
  \A id \in DOMAIN list :
    LET items == list[id].items IN
    /\ \A k \in 1..(Len(items) - 1) : items[k].isNumber # items[k + 1].isNumber
    /\ \A k \in 1..Len(items) : ItemSize(items[k]) > 0
    /\ Len(items) > 0 => ~items[Len(items)].isNumber

\* a bunch whose items are a present run, a deleted run and a present run
C17_Witness ==
  /\ C17_RunArrayWellFormed
  /\ \E id \in DOMAIN list :
       /\ Len(list[id].items) = 3
       /\ list[id].items[2].isNumber

\* C18: entries()/positions() yields exactly the positions for which has() is
\* true, each once, in strictly increasing Order.compare order, with the
\* yielded index counting 0, 1, 2, ...; index(p) of a present p equals the
\* number of present positions q with compare(q, p) < 0.
C18_IterationInListOrder ==
  LET e == List_entries(ListOrder, list)
      positions == List_positions(ListOrder, list)
  IN /\ {positions[k] : k \in 1..Len(positions)} = PresentPositions
     /\ Len(positions) = Cardinality(PresentPositions)
     /\ \A k \in 1..Len(e) : e[k].index = k - 1 /\ e[k].pos = positions[k]
     /\ \A j, k \in 1..Len(positions) :
          j < k => compare(ListOrder, positions[j], positions[k]) < 0
     /\ \A p \in PresentPositions :
          List_index(ListOrder, list, p, "none") =
            Cardinality({q \in PresentPositions : compare(ListOrder, q, p) < 0})

\* the present positions and values of two list states are the same
SameList(st1, st2) ==
  /\ List_length(st1) = List_length(st2)
  /\ \A p \in ListPositions(ListOrder) :
       List_has(st1, p) = List_has(st2, p) /\ List_get(st1, p) = List_get(st2, p)
  /\ List_save(st1) = List_save(st2)

\* C19: after L2.load(L1.save()), L2 has the same length, the same has()/get()
\* for every position as L1, and L2.save() equals L1.save().
C19_SaveLoadRoundTrip ==
  [][last'.op = "load" => SameList(list', list)]_vars

(***************************************************************************)
(* Order.receive on batches of up to MaxBatchLen metas over three bunch    *)
(* IDs: conflicts (a different parentID or offset), parents that are       *)
(* unknown, parent cycles, the root's ID, an invalid ID, in any order.     *)
(***************************************************************************)
MaxBatchLen == 3

BatchIDs == {ID_a, ID_ab, ID_b}

BatchUniverse ==
  [bunchID : BatchIDs, parentID : {ROOT, ID_unknown} \cup BatchIDs, offset : {1}]
  \cup {[bunchID |-> ID_a, parentID |-> ROOT, offset |-> 2],
        [bunchID |-> ROOT, parentID |-> ROOT, offset |-> 1],
        [bunchID |-> ID_invalid, parentID |-> ROOT, offset |-> 1]}

\* the metas of a batch whose bunch is not installed
NewMetas(o, nodeMetas) ==
  {nodeMetas[k] : k \in {j \in 1..Len(nodeMetas) : nodeMetas[j].bunchID \notin DOMAIN o.nodes}}

\* a meta has the bunchID of an installed bunch, or of an earlier meta of the
\* batch, but a different parentID or offset
HasConflict(o, nodeMetas) ==
  \E k \in 1..Len(nodeMetas) :
    \/ /\ nodeMetas[k].bunchID \in DOMAIN o.nodes
       /\ nodeMetas[k].bunchID # ROOT
       /\ \/ nodeMetas[k].parentID # o.nodes[nodeMetas[k].bunchID].parent
          \/ nodeMetas[k].offset # o.nodes[nodeMetas[k].bunchID].offset
    \/ \E j \in 1..(k - 1) :
         /\ nodeMetas[j].bunchID = nodeMetas[k].bunchID
         /\ nodeMetas[j] # nodeMetas[k]

\* a meta that step 1 rejects by itself: the root's ID or an invalid ID
HasBadID(nodeMetas) ==
  \E k \in 1..Len(nodeMetas) :
    nodeMetas[k].bunchID = ROOT \/ ~validateOK(nodeMetas[k].bunchID)

RECURSIVE ParentChain(_, _, _, _)
\* the IDs reached from id in 1..n parent steps through the new metas
ParentChain(o, nodeMetas, id, n) ==
  IF n = 0 THEN {}
  ELSE LET parents == {m.parentID : m \in {x \in NewMetas(o, nodeMetas) : x.bunchID = id}}
       IN parents \cup UNION {ParentChain(o, nodeMetas, q, n - 1) : q \in parents}

\* the new metas contain a parent cycle
HasCycle(o, nodeMetas) ==
  \E m \in NewMetas(o, nodeMetas) :
    m.bunchID \in ParentChain(o, nodeMetas, m.bunchID, Len(nodeMetas))

\* a new meta's parentID is neither installed nor the bunchID of a meta of the batch
HasUnknownParent(o, nodeMetas) ==
  \E m \in NewMetas(o, nodeMetas) :
    /\ m.parentID \notin DOMAIN o.nodes
    /\ \A k \in 1..Len(nodeMetas) : nodeMetas[k].bunchID # m.parentID

\* every new meta's parent chain reaches an installed bunch through the batch
ChainsReachInstalled(o, nodeMetas) ==
  \A m \in NewMetas(o, nodeMetas) :
    /\ m.bunchID \notin ParentChain(o, nodeMetas, m.bunchID, Len(nodeMetas))
    /\ ParentChain(o, nodeMetas, m.bunchID, Len(nodeMetas)) \cap DOMAIN o.nodes # {}

RECURSIVE OneByOne(_, _)
\* the Orders that receiving the metas one by one, parent first, can give
OneByOne(o, metas) ==
  IF metas = {} THEN {o}
  ELSE UNION {OneByOne(receive(o, <<m>>).order, metas \ {m}) :
                m \in {x \in metas : x.parentID \in DOMAIN o.nodes}}

InitBatch ==
  /\ tree = [r \in {"r1"} |-> NewOrder]
  /\ sent = {}
  /\ minted = {}
  /\ last = [op |-> "init"]
  /\ enc = NoEnc
  /\ ps = NoSources
  /\ list = NoList

\* the Order as it is before the batch: bunches installed one at a time
InstallOne ==
  \E m \in {x \in BatchUniverse : x.offset = 1} :
    \E res \in {receive(tree["r1"], <<m>>)} :
      /\ last.op # "receive"
      /\ res.error = "none"
      /\ res.order # tree["r1"]
      /\ tree' = [tree EXCEPT !["r1"] = res.order]
      /\ last' = [op |-> "install"]
      /\ UNCHANGED <<sent, minted, enc, ps, list>>

\* the batch lists every new meta after its parent
ParentFirst(o, nodeMetas) ==
  \A k \in 1..Len(nodeMetas) :
    \/ nodeMetas[k].parentID \in DOMAIN o.nodes
    \/ \E j \in 1..(k - 1) : nodeMetas[j].bunchID = nodeMetas[k].parentID

\* receive of any batch; last records what the batch holds, the error, the
\* nodes that receiving the new metas one by one can give, and what receiving
\* the same batch once more does
ReceiveBatch ==
  /\ last.op # "receive"
  /\ \E nodeMetas \in UNION {[1..n -> BatchUniverse] : n \in 1..MaxBatchLen} :
       \E o \in {tree["r1"]} :
         \E res \in {receive(o, nodeMetas)},
            wellFormed \in {ChainsReachInstalled(o, nodeMetas) /\ ~HasConflict(o, nodeMetas)
                            /\ ~HasBadID(nodeMetas)} :
           /\ tree' = [tree EXCEPT !["r1"] = res.order]
           /\ last' = [op |-> "receive", error |-> res.error, length |-> Len(nodeMetas),
                       conflict |-> HasConflict(o, nodeMetas),
                       badID |-> HasBadID(nodeMetas),
                       cycle |-> HasCycle(o, nodeMetas),
                       unknown |-> HasUnknownParent(o, nodeMetas),
                       wellFormed |-> wellFormed,
                       parentFirst |-> ParentFirst(o, nodeMetas),
                       new |-> {m.bunchID : m \in NewMetas(o, nodeMetas)},
                       oneByOne |-> IF wellFormed
                                    THEN {x.nodes : x \in OneByOne(o, NewMetas(o, nodeMetas))}
                                    ELSE {},
                       again |-> IF res.error = "none" THEN receive(res.order, nodeMetas)
                                 ELSE [error |-> "none", order |-> res.order]]
           /\ UNCHANGED <<sent, minted, enc, ps, list>>

NextBatch == InstallOne \/ ReceiveBatch

SpecBatch == InitBatch /\ [][NextBatch]_vars

\* C21 as stated: every batch whose new metas contain a parent cycle fails
\* with the cycle error, whatever else it contains, and installs nothing.
C21_CycleAlwaysCycleError ==
  [][(last'.op = "receive" /\ last'.cycle) =>
       (last'.error = "cycle" /\ tree' = tree)]_vars

\* C21 amended: every batch whose new metas contain a parent cycle fails and
\* installs nothing; the error is the cycle error unless the batch also holds
\* a meta rejected in step 1 (the root's ID, an invalid ID, a conflict) or a
\* new meta with an unknown parent, and with an unknown parent and no step 1
\* rejection it is the cycle error or the unknown-parent error.
C21_CycleFails ==
  [][(last'.op = "receive" /\ last'.cycle) =>
       /\ last'.error # "none"
       /\ tree' = tree
       /\ (~last'.conflict /\ ~last'.badID) => last'.error \in {"cycle", "unknown parent"}
       /\ (~last'.conflict /\ ~last'.badID /\ ~last'.unknown) => last'.error = "cycle"]_vars

\* a batch of three new metas, two of them a cycle, failed with the cycle error
C21_Witness ==
  /\ last.op = "receive"
  /\ last.cycle
  /\ last.error = "cycle"
  /\ Cardinality(last.new) = 3

\* C22 as stated: every batch with a new meta whose parentID is neither
\* installed nor a bunchID of the batch fails with the unknown-parent error,
\* whatever else it contains, and installs nothing.
C22_UnknownAlwaysUnknownError ==
  [][(last'.op = "receive" /\ last'.unknown) =>
       (last'.error = "unknown parent" /\ tree' = tree)]_vars

\* C22 amended: every such batch fails and installs nothing; the error is the
\* unknown-parent error unless the batch also holds a meta rejected in step 1
\* or a parent cycle among its new metas, and with a cycle and no step 1
\* rejection it is the unknown-parent error or the cycle error.
C22_UnknownParentFails ==
  [][(last'.op = "receive" /\ last'.unknown) =>
       /\ last'.error # "none"
       /\ tree' = tree
       /\ (~last'.conflict /\ ~last'.badID) => last'.error \in {"cycle", "unknown parent"}
       /\ (~last'.conflict /\ ~last'.badID /\ ~last'.cycle) =>
            last'.error = "unknown parent"]_vars

\* a batch of three new metas, one with an unknown parent, failed with the
\* unknown-parent error
C22_Witness ==
  /\ last.op = "receive"
  /\ last.unknown
  /\ last.error = "unknown parent"
  /\ Cardinality(last.new) = 3

\* C23: receive fails whenever a meta has the bunchID of an installed bunch or
\* of an earlier meta of the batch but a different parentID or offset; metas
\* equal to installed bunches are accepted and change nothing, so receiving a
\* batch a second time leaves the Order as after the first time.
C23_ConflictAndRedundancy ==
  [][last'.op = "receive" =>
       /\ last'.conflict => (last'.error # "none" /\ tree' = tree)
       /\ last'.error = "none" =>
            (last'.again.error = "none" /\ last'.again.order = tree'["r1"])]_vars

\* a batch that installed two bunches or more was received again
C23_Witness ==
  /\ last.op = "receive"
  /\ last.error = "none"
  /\ Cardinality(last.new) >= 2
  /\ last.again.error = "none"
  /\ last.new \subseteq DOMAIN last.again.order.nodes

\* C24: a batch in which every new meta's parent chain reaches an installed
\* bunch through the batch installs all its new bunches whatever the order of
\* its metas, and the nodes (parents, depths, children order) are those of
\* the metas received one by one parent-first.
C24_OutOfOrderBatch ==
  [][(last'.op = "receive" /\ last'.wellFormed) =>
       /\ last'.error = "none"
       /\ last'.new \subseteq DOMAIN tree'["r1"].nodes
       /\ last'.oneByOne = {tree'["r1"].nodes}]_vars

\* a batch of three new metas that lists a child before its parent was installed
C24_Witness ==
  /\ last.op = "receive"
  /\ last.wellFormed
  /\ ~last.parentFirst
  /\ Cardinality(last.new) = 3
  /\ last.error = "none"
  /\ last.oneByOne = {tree["r1"].nodes}

(***************************************************************************)
(* Order.createPositions with any arguments: positions of unknown bunches, *)
(* a negative innerIndex, a third position of the root, prevPos >= nextPos,*)
(* count 0, and a newNodeID that returns an installed ID.                  *)
(***************************************************************************)
\* the positions passed to createPositions have innerIndex up to MaxCreateInner
MaxCreateInner == 1

\* newNodeID returns the same ID at every call
CreateIDs == {ID_a}

\* the metas of bunches minted by another replica
CreateUniverse == {[bunchID |-> ID_b, parentID |-> ROOT, offset |-> 1]}

\* the positions getNodeFor accepts, with innerIndex up to MaxCreateInner
CreatePositionArgs(o) ==
  {MIN_POSITION, MAX_POSITION} \cup
  {[bunchID |-> id, innerIndex |-> i] :
     id \in (DOMAIN o.nodes) \ {ROOT}, i \in 0..MaxCreateInner}

\* positions getNodeFor rejects whatever the Order holds
InvalidPositions ==
  {[bunchID |-> ID_unknown, innerIndex |-> 0],
   [bunchID |-> ROOT, innerIndex |-> 2],
   [bunchID |-> ID_b, innerIndex |-> -1]}

\* prev or next is invalid or references an unknown bunch
ArgsInvalid(o, prevPos, nextPos) ==
  \E p \in {prevPos, nextPos} :
    \/ p.innerIndex < 0
    \/ p.bunchID \notin DOMAIN o.nodes
    \/ p.bunchID = ROOT /\ p.innerIndex \notin {0, 1}

\* createPositions(prevPos, nextPos) needs a new bunch: prevPos's bunch is not
\* extended and no bunch was minted at the target
NewBunchNeeded(o, prevPos, nextPos) ==
  /\ MintedAt(o, TargetOf(o, prevPos, nextPos)) = {}
  /\ ~(/\ ~isDescendant(o, nextPos, prevPos)
       /\ o.nodes[prevPos.bunchID].createdCounter # Undefined)

InitCreate ==
  /\ tree = [r \in {"r1"} |-> NewOrder]
  /\ sent = {}
  /\ minted = {}
  /\ last = [op |-> "init"]
  /\ enc = NoEnc
  /\ ps = NoSources
  /\ list = NoList

CreateReceive ==
  \E m \in CreateUniverse :
    \E res \in {receive(tree["r1"], <<m>>)} :
      /\ res.error = "none"
      /\ res.order # tree["r1"]
      /\ tree' = [tree EXCEPT !["r1"] = res.order]
      /\ last' = [op |-> "receive"]
      /\ UNCHANGED <<sent, minted, enc, ps, list>>

\* createPositions with any arguments; sent holds the metas onCreateNode got
CreateAny ==
  \E o \in {tree["r1"]} :
    \E prevPos \in CreatePositionArgs(o) \cup InvalidPositions,
       nextPos \in CreatePositionArgs(o) \cup InvalidPositions,
       count \in 0..MaxCount, newNodeID \in CreateIDs :
      \E res \in {createPositions(o, prevPos, nextPos, count, newNodeID)},
         invalid \in {ArgsInvalid(o, prevPos, nextPos)} :
        /\ CounterBounded(res.order)
        /\ tree' = [tree EXCEPT !["r1"] = res.order]
        /\ sent' = IF res.createdNode = NoMeta THEN sent ELSE sent \cup {res.createdNode}
        /\ last' = [op |-> "createPositions", error |-> res.error, count |-> count,
                    invalid |-> invalid,
                    notLess |-> ~invalid /\ compare(o, prevPos, nextPos) >= 0,
                    collision |-> /\ ~invalid
                                  /\ compare(o, prevPos, nextPos) < 0
                                  /\ count >= 1
                                  /\ NewBunchNeeded(o, prevPos, nextPos)
                                  /\ newNodeID \in DOMAIN o.nodes]
        /\ UNCHANGED <<minted, enc, ps, list>>

NextCreate == CreateReceive \/ CreateAny

SpecCreate == InitCreate /\ [][NextCreate]_vars

\* C25: createPositions throws when compare(prev, next) >= 0, when count < 1,
\* when prev or next is invalid or references an unknown bunch, and when
\* newNodeID() returns an installed id; whenever it throws, the Order (bunch
\* set, children lists, createdCounter values, createdChildren maps) is
\* unchanged and onCreateNode is not called.
C25_CreatePositionsFailsClean ==
  [][last'.op = "createPositions" =>
       /\ (last'.invalid \/ last'.notLess \/ last'.count < 1 \/ last'.collision) =>
            last'.error # "none"
       /\ last'.error # "none" => (tree' = tree /\ sent' = sent)]_vars

\* newNodeID returned an installed id in an Order that has minted a bunch
C25_Witness ==
  /\ last.op = "createPositions"
  /\ last.collision
  /\ last.error = "id exists"
  /\ sent # {}

(***************************************************************************)
(* The List: return value of set, sentinels, cursors, search directions.   *)
(* Outline.positionAt and Outline.indexOfPosition are List.position and    *)
(* List.index.                                                             *)
(***************************************************************************)
equalsPosition(a, b) == a.bunchID = b.bunchID /\ JsStrictEq(a.innerIndex, b.innerIndex)

\* Outline.cursorAt(index), 0 <= index <= length
cursorAt(o, st, index) ==
  IF index = 0 THEN MIN_POSITION ELSE List_position(o, st, index - 1).pos

\* Outline.indexOfCursor(cursor)
indexOfCursor(o, st, cursor) ==
  IF equalsPosition(cursor, MIN_POSITION) THEN 0
  ELSE List_index(o, st, cursor, "left") + 1

\* C26: set(pos, value) returns whether there was an existing value at pos:
\* true when pos was present before the call, false when it was not, in every
\* list state and for every position of an installed bunch and every value.
C26_SetReturnsExisting ==
  \A pos \in ListPositions(ListOrder) \ {MIN_POSITION, MAX_POSITION}, value \in Values :
    List_set(ListOrder, list, pos, value).ret = List_has(list, pos)

\* C27: sentinels are not storable: no reachable list state has
\* has(MIN_POSITION) or has(MAX_POSITION) true, and position (positionAt)
\* never returns a sentinel.
C27_SentinelsNotStored ==
  /\ ~List_has(list, MIN_POSITION)
  /\ ~List_has(list, MAX_POSITION)
  /\ \A i \in 0..(List_length(list) - 1) :
       List_position(ListOrder, list, i).pos \notin {MIN_POSITION, MAX_POSITION}

\* C28: cursor round-trip: in every reachable state and for every index i in
\* [0, length], indexOfCursor(cursorAt(i)) = i.
C28_CursorRoundTrip ==
  \A i \in 0..List_length(list) :
    indexOfCursor(ListOrder, list, cursorAt(ListOrder, list, i)) = i

\* the number of present positions p of st with compare(p, c) <= 0
PresentUpTo(o, st, c) ==
  Cardinality({p \in ListPositions(o) : List_has(st, p) /\ compare(o, p, c) <= 0})

\* C29: cursor stability: for a cursor c obtained from cursorAt, after a later
\* set, delete or insert (also one that deletes c's own position),
\* indexOfCursor(c) equals the number of present positions p with
\* compare(p, c) <= 0.
C29_CursorStability ==
  [][\A i \in 0..List_length(list) :
       LET c == cursorAt(ListOrder, list, i)
       IN indexOfCursor(tree'["r1"], list', c) = PresentUpTo(tree'["r1"], list', c)]_vars

\* the present positions less than pos, and greater than pos, by compare
PresentBelow(o, st, pos) ==
  {q \in ListPositions(o) : List_has(st, q) /\ compare(o, q, pos) < 0}

PresentAbove(o, st, pos) ==
  {q \in ListPositions(o) : List_has(st, q) /\ compare(o, q, pos) > 0}

\* C30: for a valid position pos that is not present, index(pos, "none") is
\* -1, index(pos, "left") is the index of the greatest present position less
\* than pos (-1 when there is none) and index(pos, "right") is the index of
\* the least present position greater than pos (length when there is none).
C30_SearchDirection ==
  \A pos \in ListPositions(ListOrder) :
    ~List_has(list, pos) =>
      LET below == PresentBelow(ListOrder, list, pos)
          above == PresentAbove(ListOrder, list, pos)
      IN /\ List_index(ListOrder, list, pos, "none") = -1
         /\ IF below = {} THEN List_index(ListOrder, list, pos, "left") = -1
            ELSE \E q \in below :
                   /\ \A r \in below : compare(ListOrder, r, q) <= 0
                   /\ List_index(ListOrder, list, pos, "left")
                        = List_index(ListOrder, list, q, "none")
         /\ IF above = {} THEN List_index(ListOrder, list, pos, "right") = List_length(list)
            ELSE \E q \in above :
                   /\ \A r \in above : compare(ListOrder, r, q) >= 0
                   /\ List_index(ListOrder, list, pos, "right")
                        = List_index(ListOrder, list, q, "none")

(***************************************************************************)
(* insertAt.  List.insertAt calls order.createPosition(prevPos), which the *)
(* Order of this repository does not have; the position is created by      *)
(* createPositions(prevPos, nextPos, 1) with nextPos the position at index *)
(* (MAX_POSITION at the end of the list).                                  *)
(***************************************************************************)
\* List.insertAt(index, value), 0 <= index <= length: [error, order, state, pos]
List_insertAt(o, st, index, value, newNodeID) ==
  LET prevPos == IF index = 0 THEN MIN_POSITION ELSE List_position(o, st, index - 1).pos
      nextPos == IF index = List_length(st) THEN MAX_POSITION
                 ELSE List_position(o, st, index).pos
      res == createPositions(o, prevPos, nextPos, 1, newNodeID)
  IN IF res.error # "none"
     THEN [error |-> res.error, order |-> o, state |-> st, pos |-> NoPosition,
           prevPos |-> prevPos, nextPos |-> nextPos]
     ELSE [error |-> "none", order |-> res.order,
           state |-> List_set(res.order, st, res.startPos, value).state,
           pos |-> res.startPos, prevPos |-> prevPos, nextPos |-> nextPos]

\* the sequence s without its element number k
RemoveAt(s, k) == SubSeq(s, 1, k - 1) \o SubSeq(s, k + 1, Len(s))

ID_A == <<UpperA>>

\* the last waypoint of a created string: the text after the last 'r' or 'l'
\* that is not the final character, without the final character
LeafWaypoint(pos) ==
  LET marks == {i \in 1..(Len(pos) - 1) : pos[i] \in {LowerR, LowerL}}
      from == IF marks = {} THEN 0 ELSE CHOOSE i \in marks : \A j \in marks : j <= i
  IN SubSeq(pos, from + 1, Len(pos) - 1)

\* [sender, counter, valueIndex] of the last waypoint of a created string
LeafOf(pos) ==
  LET parts == Split(LeafWaypoint(pos), Comma)
  IN [sender |-> parts[1], counter |-> parseNumber(parts[2]),
      valueIndex |-> parseNumber(parts[3])]

\* pos is the string the source ID created last in one of its own waypoints
LastCreatedInOwnWaypoint(lastValueIndices, ID, pos) ==
  /\ pos[Len(pos)] = LowerR
  /\ LeafOf(pos).sender = ID
  /\ LeafOf(pos).counter < Len(lastValueIndices)
  /\ lastValueIndices[LeafOf(pos).counter + 1] = LeafOf(pos).valueIndex

\* left with the value index of its last waypoint replaced by its successor
Advanced(left) ==
  LET lastComma == JsLastIndexOf(left, Comma, Len(left))
  IN JsSlice(left, 0, lastComma + 1)
       \o stringifyNumber(lexSucc(LeafOf(left).valueIndex)) \o <<LowerR>>

PresentFirst(items) ==
  \A k \in 1..Len(items) : items[k].isNumber <=> ((k - 1) % 2 = 1)

\* C33: in every list state reached by set and delete, each non-root bunch's run
\* array, in memory and in save(), holds present runs at even indices and
\* deleted counts at odd indices, also for a bunch whose innerIndex 0 is not
\* present.
C33_PresentFirst ==
  /\ \A id \in (DOMAIN list) \ {ROOT} : PresentFirst(list[id].items)
  /\ \A id \in (DOMAIN List_save(list)) \ {ROOT} : PresentFirst(List_save(list)[id])

(***************************************************************************)
(* One Order that mints several bunches.  createPositions is called with   *)
(* any two positions the caller can hold and newNodeID returns an unused   *)
(* id while there is one; receive delivers one meta of a bunch made by     *)
(* another replica, or again a meta this Order has handed to onCreateNode. *)
(***************************************************************************)
\* createdCounter stays at or below MaxMintCounter
MaxMintCounter == 2
\* the positions of a received bunch have innerIndex 0..MaxMintInner
MaxMintInner == 1

ID_c == <<99>>

MintIDs == {ID_a, ID_ab}

\* the metas of other replicas: c under the root, in two conflicting places,
\* and zz under c or under this Order's bunch a
MintUniverse ==
  {[bunchID |-> ID_c, parentID |-> ROOT, offset |-> 1],
   [bunchID |-> ID_c, parentID |-> ROOT, offset |-> 3],
   [bunchID |-> ID_unknown, parentID |-> ID_c, offset |-> 1],
   [bunchID |-> ID_unknown, parentID |-> ID_a, offset |-> 1]}

\* what newNodeID returns: an unused id of MintIDs, ID_a when all are used
MintFreshID(o) ==
  LET free == MintIDs \ DOMAIN o.nodes
  IN IF free = {} THEN ID_a
     ELSE CHOOSE id \in free : \A other \in free : id = other \/ StrLess(id, other)

\* the positions a caller can hold: the sentinels, the positions this Order
\* has returned, and the positions of received bunches
MintPositions(o) ==
  {MIN_POSITION, MAX_POSITION} \cup minted \cup
  {p \in [bunchID : (DOMAIN o.nodes) \ {ROOT}, innerIndex : 0..MaxMintInner] :
     o.nodes[p.bunchID].createdCounter = Undefined}

InitMint ==
  /\ tree = [r \in {"r1"} |-> NewOrder]
  /\ sent = {}
  /\ minted = {}
  /\ last = [op |-> "init"]
  /\ enc = NoEnc
  /\ ps = NoSources
  /\ list = NoList

MintCreate ==
  \E prevPos \in MintPositions(tree["r1"]), nextPos \in MintPositions(tree["r1"]),
     count \in 1..MaxCount :
    \E res \in {createPositions(tree["r1"], prevPos, nextPos, count,
                                MintFreshID(tree["r1"]))} :
      /\ \A id \in DOMAIN res.order.nodes :
           res.order.nodes[id].createdCounter <= MaxMintCounter
      /\ tree' = [tree EXCEPT !["r1"] = res.order]
      /\ sent' = IF res.createdNode = NoMeta THEN sent ELSE sent \cup {res.createdNode}
      /\ minted' = IF res.error = "none"
                   THEN minted \cup startPosToArray(res.startPos, count) ELSE minted
      /\ last' = [op |-> "createPositions", error |-> res.error,
                  reused |-> res.error = "none" /\ res.createdNode = NoMeta]
      /\ UNCHANGED <<enc, ps, list>>

MintReceive ==
  \E nodeMeta \in MintUniverse \cup sent :
    \E res \in {receive(tree["r1"], <<nodeMeta>>)} :
      /\ tree' = [tree EXCEPT !["r1"] = res.order]
      /\ last' = [op |-> "receive", error |-> res.error, reused |-> FALSE]
      /\ UNCHANGED <<sent, minted, enc, ps, list>>

NextMint == MintCreate \/ MintReceive

SpecMint == InitMint /\ [][NextMint]_vars

MintOrder == tree["r1"]

\* the bunches this Order has minted
MintedBunches == {id \in DOMAIN MintOrder.nodes : MintOrder.nodes[id].createdCounter # Undefined}

\* C35: one minted bunch per (parent, offset). No two bunches minted by the
\* Order share the same parent and offset, and every entry
\* createdChildren[offset] of a bunch is a bunch minted by this Order whose
\* parent is that bunch and whose offset is that key.
C35_OneMintedBunchPerPlace ==
  /\ \A id \in MintedBunches, other \in MintedBunches :
       (/\ MintOrder.nodes[id].parent = MintOrder.nodes[other].parent
        /\ MintOrder.nodes[id].offset = MintOrder.nodes[other].offset) => id = other
  /\ \A id \in DOMAIN MintOrder.nodes :
       \A offset \in DOMAIN MintOrder.nodes[id].createdChildren :
         LET child == MintOrder.nodes[id].createdChildren[offset] IN
         /\ child \in MintedBunches
         /\ MintOrder.nodes[child].parent = id
         /\ MintOrder.nodes[child].offset = offset

\* C35 witness: the Order has minted two bunches under one parent, one of
\* them at the place of a received bunch, and has since created a position at
\* a place where it had minted a bunch
C35_Witness ==
  /\ Cardinality(MintedBunches) = 2
  /\ \E id \in MintedBunches, other \in MintedBunches :
       id # other /\ MintOrder.nodes[id].parent = MintOrder.nodes[other].parent
  /\ \E id \in MintedBunches, other \in (DOMAIN MintOrder.nodes) \ MintedBunches :
       /\ MintOrder.nodes[id].parent = MintOrder.nodes[other].parent
       /\ MintOrder.nodes[id].offset = MintOrder.nodes[other].offset
  /\ last.op = "createPositions"
  /\ last.reused

\* C36: forward runs stay in one bunch. For prevPos < nextPos with prevPos in
\* a bunch minted by this Order and nextPos not a descendant of prevPos,
\* createPositions(prevPos, nextPos, count) mints no bunch, returns
\* {prevPos's bunch, createdCounter} and raises that createdCounter by exactly
\* count, leaving the rest of the Order as it was; and the next call of the
\* run, createPositions(last position returned, nextPos), returns the
\* following innerIndex of the same bunch.
C36_ForwardRunOneBunch ==
  \A prevPos \in MintPositions(MintOrder), nextPos \in MintPositions(MintOrder),
     count \in 1..MaxCount :
    (/\ prevPos.bunchID \in MintedBunches
     /\ ~isDescendant(MintOrder, nextPos, prevPos)
     /\ compare(MintOrder, prevPos, nextPos) < 0) =>
      LET createdCounter == MintOrder.nodes[prevPos.bunchID].createdCounter
          r == createPositions(MintOrder, prevPos, nextPos, count, MintFreshID(MintOrder))
          lastPos == [bunchID |-> prevPos.bunchID, innerIndex |-> createdCounter + count - 1]
          r2 == createPositions(r.order, lastPos, nextPos, 1, MintFreshID(r.order))
      IN /\ r.error = "none"
         /\ r.createdNode = NoMeta
         /\ r.startPos = [bunchID |-> prevPos.bunchID, innerIndex |-> createdCounter]
         /\ r.order = [MintOrder EXCEPT
                         !.nodes[prevPos.bunchID].createdCounter = createdCounter + count]
         /\ r2.error = "none"
         /\ r2.createdNode = NoMeta
         /\ r2.startPos = [bunchID |-> prevPos.bunchID,
                           innerIndex |-> createdCounter + count]

\* C36 witness: the case arises for a prevPos that is not the last position of
\* its bunch, in a bunch that has a child bunch, and for a nextPos other than
\* MAX_POSITION
C36_Witness ==
  \E prevPos \in MintPositions(MintOrder), nextPos \in MintPositions(MintOrder) :
    /\ prevPos.bunchID \in MintedBunches
    /\ ~isDescendant(MintOrder, nextPos, prevPos)
    /\ compare(MintOrder, prevPos, nextPos) < 0
    /\ nextPos # MAX_POSITION
    /\ prevPos.innerIndex + 1 < MintOrder.nodes[prevPos.bunchID].createdCounter
    /\ MintOrder.nodes[prevPos.bunchID].children # <<>>
    /\ last.op = "createPositions"
    /\ last.reused

\* the innerIndex values createPositions has handed out in bunch id
HandedOut(handed, id) == {p.innerIndex : p \in {q \in handed : q.bunchID = id}}

\* every createdCounter is the number of innerIndex values handed out in its
\* bunch, and nothing was handed out in a bunch without a createdCounter
CountersMatch(o, handed) ==
  \A id \in DOMAIN o.nodes :
    IF o.nodes[id].createdCounter = Undefined THEN HandedOut(handed, id) = {}
    ELSE /\ Cardinality(HandedOut(handed, id)) = o.nodes[id].createdCounter
         /\ HandedOut(handed, id) = 0..(o.nodes[id].createdCounter - 1)

\* no createdCounter of o is lower in after
CountersKept(o, after) ==
  \A id \in DOMAIN o.nodes :
    /\ id \in DOMAIN after.nodes
    /\ after.nodes[id].createdCounter >= o.nodes[id].createdCounter

\* C37: created positions are fresh. In every state reached by createPositions
\* and receive calls, every createdCounter equals the number of innerIndex
\* values handed out in its bunch; every createPositions call that returns
\* hands out a run [start, start + count) that shares no position with the
\* runs handed out before, lowers no createdCounter and keeps the counters
\* equal to the numbers handed out; and receive lowers no createdCounter.
C37_CreatedPositionsFresh ==
  /\ CountersMatch(MintOrder, minted)
  /\ \A prevPos \in MintPositions(MintOrder), nextPos \in MintPositions(MintOrder),
        count \in 1..MaxCount :
       LET r == createPositions(MintOrder, prevPos, nextPos, count, MintFreshID(MintOrder))
       IN /\ CountersKept(MintOrder, r.order)
          /\ r.error = "none" =>
               /\ startPosToArray(r.startPos, count) \cap minted = {}
               /\ CountersMatch(r.order, minted \cup startPosToArray(r.startPos, count))
  /\ \A nodeMeta \in MintUniverse \cup sent :
       CountersKept(MintOrder, receive(MintOrder, <<nodeMeta>>).order)

\* C37 witness: createPositions has handed out positions in two bunches, two
\* of them in a bunch that has a child bunch, the last call appending to a
\* bunch minted before
C37_Witness ==
  /\ \E id \in MintedBunches, other \in MintedBunches :
       /\ id # other
       /\ MintOrder.nodes[id].createdCounter = 2
       /\ MintOrder.nodes[id].children # <<>>
  /\ last.op = "createPositions"
  /\ last.reused

(***************************************************************************)
(* The shape of the tree.  The Order of the previous section also loads    *)
(* the saved states of other Orders and unlexes their LexPositions.        *)
(***************************************************************************)
\* the Orders of other replicas: c and zz below it, and c in another place
ForeignOrders ==
  {receive(NewOrder, <<[bunchID |-> ID_c, parentID |-> ROOT, offset |-> 1],
                       [bunchID |-> ID_unknown, parentID |-> ID_c, offset |-> 1]>>).order,
   receive(NewOrder, <<[bunchID |-> ID_c, parentID |-> ROOT, offset |-> 3]>>).order}

\* the LexPositions the other replicas hand out
ForeignLex ==
  {MIN_LEX_POSITION, MAX_LEX_POSITION} \cup
  UNION {{lex(f, p) : p \in {q \in [bunchID : (DOMAIN f.nodes) \ {ROOT},
                                     innerIndex : 0..MaxMintInner] : lexReturns(f, q)}}
         : f \in ForeignOrders}

ShapeLoad ==
  \E f \in ForeignOrders :
    \E res \in {receive(tree["r1"], save(f))} :
      /\ tree' = [tree EXCEPT !["r1"] = res.order]
      /\ last' = [op |-> "load", error |-> res.error, reused |-> FALSE]
      /\ UNCHANGED <<sent, minted, enc, ps, list>>

ShapeUnlex ==
  \E lexPos \in ForeignLex :
    \E res \in {unlex(tree["r1"], lexPos)} :
      /\ tree' = [tree EXCEPT !["r1"] = res.order]
      /\ last' = [op |-> "unlex", error |-> res.error, reused |-> FALSE]
      /\ UNCHANGED <<sent, minted, enc, ps, list>>

NextShape == MintCreate \/ MintReceive \/ ShapeLoad \/ ShapeUnlex

SpecShape == InitMint /\ [][NextShape]_vars

\* sibling order: offset ascending, then id + "," ascending
SiblingLess(a, b) ==
  \/ a.offset < b.offset
  \/ a.offset = b.offset /\ StrLess(a.id \o <<Comma>>, b.id \o <<Comma>>)

\* every non-root bunch's parent is installed and lists it exactly once in
\* children, depth = parent's depth + 1, children hold only the bunch's own
\* children, and every children list is strictly increasing in sibling order
TreeShape(o) ==
  /\ \A id \in (DOMAIN o.nodes) \ {ROOT} :
       /\ o.nodes[id].parent \in DOMAIN o.nodes
       /\ Cardinality({k \in 1..Len(o.nodes[o.nodes[id].parent].children) :
                         o.nodes[o.nodes[id].parent].children[k] = id}) = 1
       /\ o.nodes[id].depth = o.nodes[o.nodes[id].parent].depth + 1
  /\ \A id \in DOMAIN o.nodes :
       LET children == o.nodes[id].children IN
       /\ \A k \in 1..Len(children) :
            children[k] \in DOMAIN o.nodes /\ o.nodes[children[k]].parent = id
       /\ \A k \in 1..(Len(children) - 1) :
            SiblingLess(o.nodes[children[k]], o.nodes[children[k + 1]])

\* no bunch of o is missing in after or has another parent or offset there
BunchesKept(o, after) ==
  \A id \in DOMAIN o.nodes :
    /\ id \in DOMAIN after.nodes
    /\ after.nodes[id].parent = o.nodes[id].parent
    /\ after.nodes[id].offset = o.nodes[id].offset

\* C38: tree shape invariant. Every successful or failed receive, load, unlex
\* and createPositions call keeps every bunch with its parent and offset and
\* leaves a tree in which every non-root bunch's parent is installed and
\* lists it exactly once in children, depth = parent's depth + 1, and every
\* children list is strictly increasing in sibling order (offset ascending,
\* then id + "," ascending).
C38_TreeShape ==
  [][BunchesKept(tree["r1"], tree'["r1"]) /\ TreeShape(tree'["r1"])]_vars

\* C38 witness: a call has failed on a tree of depth 2 in which a bunch has
\* two children at one offset
C38_Witness ==
  /\ last.error # "none"
  /\ TreeShape(MintOrder)
  /\ \E id \in DOMAIN MintOrder.nodes : MintOrder.nodes[id].depth = 2
  /\ \E id \in DOMAIN MintOrder.nodes :
       \E k \in 1..(Len(MintOrder.nodes[id].children) - 1) :
         MintOrder.nodes[MintOrder.nodes[id].children[k]].offset
           = MintOrder.nodes[MintOrder.nodes[id].children[k + 1]].offset

(***************************************************************************)
(* set and delete.                                                         *)
(***************************************************************************)
\* the slots has() and get() are compared on: the positions a caller can hold
\* and the slots of every installed bunch up to innerIndex MaxListInner + 1
ListSlots(o) ==
  ListPositions(o) \cup
  [bunchID : (DOMAIN o.nodes) \ {ROOT}, innerIndex : 0..(MaxListInner + 1)]

\* has() and get() of every slot but pos are the same in st and after
OthersUnchanged(o, st, after, pos) ==
  \A other \in ListSlots(o) \ {pos} :
    /\ List_has(after, other) = List_has(st, other)
    /\ List_get(after, other) = List_get(st, other)

\* C39: set and delete touch one slot. In every list state, for every
\* position pos and value v: after set(pos, v), has(pos) is true and
\* get(pos) = v; after delete(pos), has(pos) is false and get(pos) is
\* undefined; in both cases has() and get() of every other position are
\* unchanged and the length changes by +1, -1 or 0 according to whether pos
\* changed presence.
C39_SetDeleteOneSlot ==
  \A pos \in ListPositions(ListOrder) :
    /\ \A value \in 1..(MaxValue + 1) :
         LET after == List_set(ListOrder, list, pos, value).state IN
         /\ List_has(after, pos)
         /\ List_get(after, pos) = value
         /\ OthersUnchanged(ListOrder, list, after, pos)
         /\ List_length(after) = List_length(list) + (IF List_has(list, pos) THEN 0 ELSE 1)
    /\ LET after == List_delete(ListOrder, list, pos).state IN
       /\ ~List_has(after, pos)
       /\ List_get(after, pos) = Undefined
       /\ OthersUnchanged(ListOrder, list, after, pos)
       /\ List_length(after) = List_length(list) - (IF List_has(list, pos) THEN 1 ELSE 0)

\* C39 witness: a bunch holds a present run, a deleted run and a present run,
\* and another bunch holds values too, so that set and delete split and merge
\* runs beside other present slots
C39_Witness ==
  /\ \E id \in (DOMAIN list) \ {ROOT} :
       /\ Len(list[id].items) = 3
       /\ list[id].items[2].isNumber
  /\ \E id \in (DOMAIN list) \ {ROOT}, other \in (DOMAIN list) \ {ROOT} :
       id # other /\ Len(list[id].items) > 0 /\ Len(list[other].items) > 0

(***************************************************************************)
(* The saved state as a function of the List's content.  Outline.from      *)
(* calls set for every position it is given; an Outline is kept as a List  *)
(* whose values are all the same.                                          *)
(***************************************************************************)
\* Outline.from takes up to MaxFrom positions
MaxFrom == 3

RECURSIVE Outline_fromLoop(_, _, _)
Outline_fromLoop(o, st, positions) ==
  IF positions = <<>> THEN st
  ELSE Outline_fromLoop(o, List_set(o, st, Head(positions), 1).state, Tail(positions))

\* Outline.from(order, positions)
Outline_from(o, positions) == Outline_fromLoop(o, NewList, positions)

RECURSIVE ContentRuns(_, _, _, _)
\* the runs of bunch id from innerIndex i on, read off has() and get() alone,
\* appended to acc
ContentRuns(st, id, i, acc) ==
  IF i > MaxListInner THEN acc
  ELSE LET pos == [bunchID |-> id, innerIndex |-> i]
           n == Len(acc)
       IN IF List_has(st, pos)
          THEN ContentRuns(st, id, i + 1,
                 IF n > 0 /\ ~acc[n].isNumber
                 THEN [acc EXCEPT ![n].values = Append(@, List_get(st, pos))]
                 ELSE Append(acc, Present(<<List_get(st, pos)>>)))
          ELSE ContentRuns(st, id, i + 1,
                 IF n > 0 /\ acc[n].isNumber
                 THEN [acc EXCEPT ![n].count = @ + 1]
                 ELSE Append(acc, Deleted(1)))

\* the runs without a trailing deleted run
ContentItems(st, id) ==
  LET runs == ContentRuns(st, id, 0, <<>>) IN
  IF Len(runs) > 0 /\ runs[Len(runs)].isNumber THEN SubSeq(runs, 1, Len(runs) - 1)
  ELSE runs

\* the saved state determined by the map position -> value of st
ContentSave(o, st) ==
  [id \in {id \in DOMAIN o.nodes :
             \E i \in 0..MaxListInner : List_has(st, [bunchID |-> id, innerIndex |-> i])}
     |-> ContentItems(st, id)]

\* the sets of up to MaxFrom positions that are not sentinels
FromInputs(o) ==
  {S \in SUBSET (ListPositions(o) \ {MIN_POSITION, MAX_POSITION}) :
     Cardinality(S) <= MaxFrom}

\* the orderings of the positions of S
Orderings(S) == {positions \in [1..Cardinality(S) -> S] : Range(positions) = S}

\* C40: canonical saved state. save() is the saved state determined by the
\* current map position -> value alone (the same bunch keys and run arrays
\* for every history of set and delete calls that leads to that map), the
\* bunches whose values were all deleted do not appear, and Outline.from
\* gives the same outline for every ordering of its input positions.
C40_CanonicalSave ==
  /\ List_save(list) = ContentSave(ListOrder, list)
  /\ \A S \in FromInputs(ListOrder) :
       Cardinality({Outline_from(ListOrder, positions) : positions \in Orderings(S)}) = 1

\* C40 witness: a bunch whose values were all deleted is still in the List's
\* Map, another bunch holds a present run, a deleted run and a present run,
\* and Outline.from has three positions of two bunches to order
C40_Witness ==
  /\ \E id \in (DOMAIN list) \ {ROOT} : list[id].items = <<>>
  /\ \E id \in (DOMAIN list) \ {ROOT} :
       Len(list[id].items) = 3 /\ list[id].items[2].isNumber
  /\ \E S \in FromInputs(ListOrder) :
       /\ Cardinality(S) = MaxFrom
       /\ \E p \in S, q \in S : p.bunchID # q.bunchID

====
